---- MODULE Spec2Model ----
(***************************************************************************)
(* Model of the FinOps scan pipeline: the POST /scan/run handler, the      *)
(* ScanService.runScan orchestrator, assumeRole, validatePermissions, the  *)
(* cost collector's error classification and the three resource            *)
(* collectors joined with Promise.all.                                     *)
(*                                                                         *)
(* One action is one turn of the event loop: the code that runs from the   *)
(* moment an awaited external call returns until the next external call is *)
(* issued (or the handler ends).                                           *)
(***************************************************************************)
EXTENDS Integers, Sequences, FiniteSets, TLC

(***************************************************************************)
(* Strings the code inspects character by character are sequences of       *)
(* one-character strings.                                                  *)
(***************************************************************************)
StartsWith(s, p) == Len(s) >= Len(p) /\ SubSeq(s, 1, Len(p)) = p

Includes(s, p) == \E i \in 1..(Len(s) - Len(p) + 1) : SubSeq(s, i, i + Len(p) - 1) = p

Digits == {"0", "1", "2", "3", "4", "5", "6", "7", "8", "9"}

ArnPrefix == <<"a", "r", "n", ":", "a", "w", "s", ":", "i", "a", "m", ":", ":">>

RoleMarker == <<":", "r", "o", "l", "e", "/">>

\* The pattern arn:aws:iam::<12-digit-account>:role/<name>, name non-empty.
MatchesArnPattern(s) ==
    /\ Len(s) >= 32
    /\ SubSeq(s, 1, 13) = ArnPrefix
    /\ \A i \in 14..25 : s[i] \in Digits
    /\ SubSeq(s, 26, 31) = RoleMarker

\* scanRunRequestSchema: z.string().min(1).regex(/^arn:aws:iam::\d+:role\/.+/)
ZodRoleArnOk(s) ==
    /\ Len(s) >= 1
    /\ StartsWith(s, ArnPrefix)
    /\ \E k \in 1..(Len(s) - 13) :
          /\ \A i \in 14..(13 + k) : s[i] \in Digits
          /\ Len(s) >= 13 + k + 6 + 1
          /\ SubSeq(s, 14 + k, 19 + k) = RoleMarker

\* assumeRole's local check of the role ARN, performed before any network call.
RoleArnShapeOk(roleArn) == StartsWith(roleArn, ArnPrefix) /\ Includes(roleArn, RoleMarker)

(***************************************************************************)
(* Role identifiers handed to assumeRole: every concatenation of a prefix, *)
(* an account part, a resource marker and a name, and "not-an-arn".        *)
(***************************************************************************)
Acct12 == <<"1", "2", "3", "4", "5", "6", "7", "8", "9", "0", "1", "2">>

NotAnArn == <<"n", "o", "t", "-", "a", "n", "-", "a", "r", "n">>

ArnPrefixes ==
    { ArnPrefix,
      <<"a", "r", "n", ":", "a", "w", "s", ":", "s", "3", ":", ":">>,
      <<" ">> \o ArnPrefix,
      << >> }

ArnAccounts ==
    { Acct12,
      SubSeq(Acct12, 1, 11),
      Acct12 \o <<"3">>,
      SubSeq(Acct12, 1, 11) \o <<"x">>,
      <<"a", "b", "c">>,
      << >> }

ArnMarkers == { RoleMarker, <<":", "u", "s", "e", "r", "/">>, << >> }

ArnNames == { <<"r">>, << >> }

ArnInputs ==
    { p \o a \o m \o n : p \in ArnPrefixes, a \in ArnAccounts, m \in ArnMarkers, n \in ArnNames }
        \cup { NotAnArn }

ValidArn == ArnPrefix \o Acct12 \o RoleMarker \o <<"r">>

\* Role identifiers a POST /scan/run body carries in the pipeline model.
RouteArns == { ValidArn, NotAnArn, ArnPrefix \o <<"1", "2", "3">> \o RoleMarker \o <<"r">> }

(***************************************************************************)
(* Outcomes of external calls.  An error thrown by the provider SDK is     *)
(* described by its name ("" when the thrown value has no name property)   *)
(* and by whether its text contains the word "credentials".                *)
(***************************************************************************)
NoOutcome == [kind |-> "none", name |-> "", credMsg |-> FALSE]

Ok == [kind |-> "ok", name |-> "", credMsg |-> FALSE]

Thrown(n, c) == [kind |-> "error", name |-> n, credMsg |-> c]

\* stsClient.send(AssumeRoleCommand): a response with complete credentials,
\* a response without Credentials, a response with a field missing, or an error.
StsOutcomes ==
    { Ok,
      [kind |-> "noCredentials", name |-> "", credMsg |-> FALSE],
      [kind |-> "incomplete", name |-> "", credMsg |-> FALSE] }
    \cup { Thrown(n, c) : n \in { "AccessDenied", "InvalidClientTokenId", "MalformedPolicyDocument",
                                  "ExpiredTokenException", "CredentialsProviderError", "" },
                          c \in BOOLEAN }

(***************************************************************************)
(* Errors as the code throws them: the class, the name property, the code  *)
(* property and the message template.                                      *)
(***************************************************************************)
NoError == [class |-> "none", name |-> "", code |-> "", msg |-> ""]

AssumeRoleError(msg, code) ==
    [class |-> "AssumeRoleError", name |-> "AssumeRoleError", code |-> code, msg |-> msg]

PlainError(msg) == [class |-> "Error", name |-> "Error", code |-> "", msg |-> msg]

\* A value thrown by the AWS SDK, passed on unchanged.
ProviderError(out) == [class |-> "ProviderError", name |-> out.name, code |-> "", msg |-> "provider"]

\* The default branch of the switch always answering UnknownError.
AssumeRoleFailureAlwaysUnknown(out) ==
    IF out.kind = "noCredentials" THEN
        AssumeRoleError("No credentials returned from AssumeRole", "NoCredentials")
    ELSE IF out.kind = "incomplete" THEN
        AssumeRoleError("Incomplete credentials returned from AssumeRole", "IncompleteCredentials")
    ELSE IF out.name = "AccessDenied" THEN
        AssumeRoleError("Access denied when assuming role", "AccessDenied")
    ELSE IF out.name = "InvalidClientTokenId" THEN
        AssumeRoleError("Invalid AWS credentials", "InvalidCredentials")
    ELSE IF out.name = "MalformedPolicyDocument" THEN
        AssumeRoleError("Malformed IAM policy document", "MalformedPolicy")
    ELSE IF out.credMsg THEN
        AssumeRoleError("Could not load AWS credentials", "NoCredentials")
    ELSE
        AssumeRoleError("Unexpected error assuming role", "UnknownError")

\* assumeRole, from the response of stsClient.send to the error it throws
\* (the try body's two checks and the catch block).
AssumeRoleFailure(out) ==
    IF out.kind = "noCredentials" THEN
        AssumeRoleError("No credentials returned from AssumeRole", "NoCredentials")
    ELSE IF out.kind = "incomplete" THEN
        AssumeRoleError("Incomplete credentials returned from AssumeRole", "IncompleteCredentials")
    ELSE IF out.name # "" THEN
        IF out.name = "AccessDenied" THEN
            AssumeRoleError("Access denied when assuming role", "AccessDenied")
        ELSE IF out.name = "InvalidClientTokenId" THEN
            AssumeRoleError("Invalid AWS credentials", "InvalidCredentials")
        ELSE IF out.name = "MalformedPolicyDocument" THEN
            AssumeRoleError("Malformed IAM policy document", "MalformedPolicy")
        ELSE IF out.credMsg THEN
            AssumeRoleError("Could not load AWS credentials", "NoCredentials")
        ELSE
            AssumeRoleError("Failed to assume role", out.name)
    ELSE IF out.credMsg THEN
        AssumeRoleError("Could not load AWS credentials", "NoCredentials")
    ELSE
        AssumeRoleError("Unexpected error assuming role", "UnknownError")

(***************************************************************************)
(* Bounds of the model.                                                    *)
(***************************************************************************)
\* Concurrent invocations in the interleaving specification.
NumScans == 2

\* Values generateScanId can produce (Date.now() and Math.random()).
MaxScanId == 2

\* Longest listing a collector returns.
MaxListed == 2

\* Resources in an inventory handed to the rules engine on its own.
MaxInventory == 3

\* Evaluations of one inventory on one engine instance.
MaxEvaluations == 2

\* Issues in a list handed to the savings calculator on its own.
MaxIssues == 2

\* GET requests answered on the scan routes.
MaxReads == 2

\* Webhook events handled.
MaxWebhooks == 3

\* Values the subscriptionId of syncSubscription can take (Date.now() and Math.random()).
MaxSubId == 2

\* Calls of getCostByService on one service object.
MaxCostCalls == 2

\* Instances in a DescribeInstances response.
MaxDescribed == 3

\* Resources handed to one evaluateResources call.
MaxEvaluated == 2

Users == {"u1", "u2"}

ScanIds == 1..MaxScanId

(***************************************************************************)
(* Normalized resources, with the fields the rules read.  cpuAvg is the    *)
(* 7-day average in hundredths of a percent; hasCpu tells whether          *)
(* cpuUtilization is present.                                              *)
(***************************************************************************)
Instance(id, type, state, hasCpu, cpuAvg) ==
    [instanceId |-> id, instanceType |-> type, state |-> state, hasCpu |-> hasCpu, cpuAvg |-> cpuAvg]

Volume(id, size, type, state, attached) ==
    [volumeId |-> id, size |-> size, volumeType |-> type, state |-> state, attached |-> attached]

Snapshot(id, size, state, age) ==
    [snapshotId |-> id, volumeSize |-> size, state |-> state, ageInDays |-> age]

\* mock/data.ts
mockEc2Instances ==
    << Instance("i-0", "t3.large", "running", TRUE, 1250),
       Instance("i-1", "m5.xlarge", "running", TRUE, 4580),
       Instance("i-2", "t3.medium", "stopped", FALSE, 0),
       Instance("i-3", "c5.2xlarge", "running", TRUE, 7830) >>

mockEbsVolumes ==
    << Volume("vol-0", 100, "gp3", "in-use", TRUE),
       Volume("vol-1", 500, "gp3", "in-use", TRUE),
       Volume("vol-2", 200, "gp2", "available", FALSE),
       Volume("vol-3", 50, "gp3", "in-use", TRUE),
       Volume("vol-4", 1000, "io1", "available", FALSE) >>

mockEbsSnapshots ==
    << Snapshot("snap-0", 100, "completed", 45),
       Snapshot("snap-1", 500, "completed", 20),
       Snapshot("snap-2", 100, "completed", 90),
       Snapshot("snap-3", 1000, "completed", 135) >>

\* What the provider may list for a customer account in the pipeline model.
ListedInstances ==
    << Instance("i-a", "t3.medium", "running", TRUE, 200),
       Instance("i-b", "m5.large", "running", FALSE, 0),
       Instance("i-c", "t3.medium", "stopped", FALSE, 0) >>

ListedVolumes ==
    << Volume("vol-a", 200, "gp2", "available", FALSE),
       Volume("vol-b", 100, "gp3", "in-use", TRUE),
       Volume("vol-c", 0, "io1", "available", FALSE) >>

ListedSnapshots ==
    << Snapshot("snap-a", 1000, "completed", 135),
       Snapshot("snap-b", 500, "completed", 20),
       Snapshot("snap-c", 50, "pending", 40) >>

Min(a, b) == IF a <= b THEN a ELSE b

Listings(full) == { SubSeq(full, 1, k) : k \in 0..Min(MaxListed, Len(full)) }

Collectors == {"ec2", "ebs", "snap"}

ListedBy(c) ==
    IF c = "ec2" THEN Listings(ListedInstances)
    ELSE IF c = "ebs" THEN Listings(ListedVolumes)
    ELSE Listings(ListedSnapshots)

(***************************************************************************)
(* FinOpsRulesEngine                                                       *)
(***************************************************************************)
isIdleEc2(instance) ==
    /\ instance.state = "running"
    /\ instance.hasCpu
    /\ instance.cpuAvg < 500

isUnattachedEbs(volume) == volume.state = "available" /\ ~volume.attached

\* The age threshold taken inclusively.
isOldSnapshotInclusive(snapshot) == snapshot.state = "completed" /\ snapshot.ageInDays >= 30

isOldSnapshot(snapshot) == snapshot.state = "completed" /\ snapshot.ageInDays > 30

Issue(ruleId, resourceId, resourceType, riskLevel, action) ==
    [ruleId |-> ruleId, resourceId |-> resourceId, resourceType |-> resourceType,
     riskLevel |-> riskLevel, action |-> action]

RECURSIVE evaluateEc2Instances(_)
evaluateEc2Instances(instances) ==
    IF instances = << >> THEN << >>
    ELSE (IF isIdleEc2(Head(instances))
          THEN << Issue("idle_ec2", Head(instances).instanceId, "ec2", "medium", "stop") >>
          ELSE << >>) \o evaluateEc2Instances(Tail(instances))

RECURSIVE evaluateEbsVolumes(_)
evaluateEbsVolumes(volumes) ==
    IF volumes = << >> THEN << >>
    ELSE (IF isUnattachedEbs(Head(volumes))
          THEN << Issue("unattached_ebs", Head(volumes).volumeId, "ebs-volume", "high", "delete") >>
          ELSE << >>) \o evaluateEbsVolumes(Tail(volumes))

RECURSIVE evaluateEbsSnapshots(_)
evaluateEbsSnapshots(snapshots) ==
    IF snapshots = << >> THEN << >>
    ELSE (IF isOldSnapshot(Head(snapshots))
          THEN << Issue("old_snapshot", Head(snapshots).snapshotId, "ebs-snapshot", "low", "delete") >>
          ELSE << >>) \o evaluateEbsSnapshots(Tail(snapshots))

evaluateAllResources(ec2Instances, ebsVolumes, ebsSnapshots) ==
    evaluateEc2Instances(ec2Instances) \o evaluateEbsVolumes(ebsVolumes)
        \o evaluateEbsSnapshots(ebsSnapshots)

(***************************************************************************)
(* Cost collector, permission prober and route: error classification.      *)
(***************************************************************************)
CostExplorerServiceError(msg, code) ==
    [class |-> "CostExplorerServiceError", name |-> "CostExplorerServiceError",
     code |-> code, msg |-> msg]

\* getCostByService's catch block.
CostFailure(out) ==
    IF out.name # "" THEN
        IF out.name = "AccessDenied" THEN
            CostExplorerServiceError("Access denied to Cost Explorer", "AccessDenied")
        ELSE IF out.name = "DataUnavailableException" THEN
            CostExplorerServiceError("Cost data is not available", "DataUnavailable")
        ELSE IF out.name = "InvalidNextTokenException" THEN
            CostExplorerServiceError("Invalid pagination token", "InvalidToken")
        ELSE
            CostExplorerServiceError("Failed to fetch cost data", out.name)
    ELSE
        CostExplorerServiceError("Unexpected error fetching cost data", "UnknownError")

\* extractErrorCode applied to what validateCostExplorerAccess throws: the two
\* mapped provider errors become a plain Error, whose name is "Error".
CostExplorerProbeCode(out) ==
    IF out.name \in {"AccessDenied", "UnrecognizedClientException"} THEN "Error" ELSE out.name

\* extractErrorCode applied to what validateEc2Access throws.
Ec2ProbeCode(out) ==
    IF out.name \in {"UnauthorizedOperation", "AuthFailure"} THEN "Error" ELSE out.name

NoCheck == [success |-> FALSE, code |-> ""]

NoValidation ==
    [done |-> FALSE, success |-> FALSE, errors |-> << >>,
     checks |-> [costExplorer |-> NoCheck, ec2 |-> NoCheck]]

\* validatePermissions after the Cost Explorer probe returned.
AfterCostExplorerProbe(v, out) ==
    IF out.kind = "ok" THEN
        [v EXCEPT !.checks.costExplorer = [success |-> TRUE, code |-> ""]]
    ELSE
        [v EXCEPT !.checks.costExplorer = [success |-> FALSE, code |-> CostExplorerProbeCode(out)],
                  !.errors = Append(@, [service |-> "Cost Explorer", code |-> CostExplorerProbeCode(out)])]

\* A prober that reports only the first failing capability.
AfterEc2ProbeFirstOnly(v, out) ==
    LET w == IF out.kind = "ok" THEN
                 [v EXCEPT !.checks.ec2 = [success |-> TRUE, code |-> ""]]
             ELSE IF v.errors # << >> THEN
                 [v EXCEPT !.checks.ec2 = [success |-> FALSE, code |-> Ec2ProbeCode(out)]]
             ELSE
                 [v EXCEPT !.checks.ec2 = [success |-> FALSE, code |-> Ec2ProbeCode(out)],
                           !.errors = Append(@, [service |-> "EC2", code |-> Ec2ProbeCode(out)])]
    IN  [w EXCEPT !.done = TRUE, !.success = (w.errors = << >>)]

\* validatePermissions after the EC2 probe returned: the result it builds.
AfterEc2Probe(v, out) ==
    LET w == IF out.kind = "ok" THEN
                 [v EXCEPT !.checks.ec2 = [success |-> TRUE, code |-> ""]]
             ELSE
                 [v EXCEPT !.checks.ec2 = [success |-> FALSE, code |-> Ec2ProbeCode(out)],
                           !.errors = Append(@, [service |-> "EC2", code |-> Ec2ProbeCode(out)])]
    IN  [w EXCEPT !.done = TRUE, !.success = (w.errors = << >>)]

\* A prober whose result is never examined.
ValidationPassedAlways(v) == TRUE

\* validatePermissions returns its result only if no check failed; otherwise
\* it throws ValidationError.
ValidationPassed(v) == v.success

\* A cost stage whose failure is swallowed.
CostCollectedAlways(out) == TRUE

\* runScan awaits the cost collector without a try block: it goes on only if
\* the billing query succeeded.
CostCollected(out) == out.kind = "ok"

ZodError == [class |-> "ZodError", name |-> "ZodError", code |-> "", msg |-> "Invalid request"]

\* The catch block of the POST /run handler.
RouteStatus(e) ==
    IF e.class = "ZodError" THEN 400
    ELSE IF e.class = "AssumeRoleError" THEN
        (IF e.code \in {"InvalidRoleArn", "MalformedPolicy"} THEN 400 ELSE 403)
    ELSE IF e.name \in {"AccessDenied", "UnauthorizedOperation"} THEN 403
    ELSE IF e.name = "DataUnavailableException" THEN 503
    ELSE 500

(***************************************************************************)
(* Outcomes of the remaining external calls.                               *)
(***************************************************************************)
ProbeOutcomes(names) == { Ok } \cup { Thrown(n, FALSE) : n \in names }

CostExplorerErrors == {"AccessDenied", "DataUnavailableException", "InvalidNextTokenException",
                       "ThrottlingException", ""}

Ec2Errors == {"UnauthorizedOperation", "RequestLimitExceeded", ""}

\* Everything the environment and the callers may do, per external call.
FullProfile ==
    [ arns     |-> RouteArns,
      users    |-> Users,
      sts      |-> StsOutcomes,
      ceProbe  |-> ProbeOutcomes({"AccessDenied", "UnrecognizedClientException", "ThrottlingException", ""}),
      ec2Probe |-> ProbeOutcomes({"UnauthorizedOperation", "AuthFailure", ""}),
      cost     |-> ProbeOutcomes(CostExplorerErrors),
      listing  |-> ProbeOutcomes(Ec2Errors),
      listed   |-> [c \in Collectors |-> ListedBy(c)],
      rules    |-> BOOLEAN,
      dbOk     |-> BOOLEAN ]

\* A narrower environment for the interleaving specification.
NarrowProfile ==
    [ arns     |-> { ValidArn },
      users    |-> { "u1" },
      sts      |-> { Ok, Thrown("AccessDenied", FALSE) },
      ceProbe  |-> { Ok },
      ec2Probe |-> { Ok, Thrown("UnauthorizedOperation", FALSE) },
      cost     |-> { Ok },
      listing  |-> { Ok },
      listed   |-> [c \in Collectors |-> { << >> }],
      rules    |-> { TRUE },
      dbOk     |-> { TRUE } ]

(***************************************************************************)
(* State.                                                                  *)
(***************************************************************************)
VARIABLES
    processEnv,          \* process.env.MOCK_AWS ("undefined" when not set)
    mockAws,             \* env.MOCK_AWS, parsed from process.env when the module loaded
    activeSubs,          \* customers with an active subscription (customerStorage)
    db,                  \* the scans table: scanId -> [customerId, result]
    stsSessions,         \* token exchange service: stsSessions[t] is the invocation token t was issued to
    pc,                  \* per invocation: the await it is suspended at
    entry,               \* per invocation: the exported function that was called
    req,                 \* per invocation: request body and authenticated user
    scanId,              \* per invocation: generateScanId()
    assumedCredentials,  \* per invocation: the local variable of runScan
    calls,               \* per invocation: operations issued so far, with the credentials passed
    outcome,             \* per invocation: what each awaited call answered
    validation,          \* per invocation: the ValidationResult being built
    tasks,               \* per invocation: the three promises handed to Promise.all
    result,              \* per invocation: the ScanResult runScan returned
    error,               \* per invocation: the error runScan (or assumeRole) threw
    failedStage,         \* per invocation: the stage whose operation failed
    reply                \* per invocation: HTTP status sent (0 while none)

scanVars == << processEnv, mockAws, activeSubs, db, stsSessions, pc, entry, req, scanId, assumedCredentials,
               calls, outcome, validation, tasks, result, error, failedStage, reply >>

\* A FinOpsRulesEngine instance and its caller.
VARIABLES
    engineRules,         \* FinOpsRulesEngine.rules: ids of the rules loaded as enabled
    resources,           \* the caller's inventory: [ec2Instances, ebsVolumes, ebsSnapshots]
    evaluations          \* the issue lists evaluateAllResources returned, oldest first

rulesVars == << engineRules, resources, evaluations >>

\* A SavingsCalculator call.
VARIABLES
    issueList,           \* calculateSavingsSummary: issues
    resourceDataMap,     \* calculateSavingsSummary: resourceDataMap (resourceId -> data)
    savingsSummary       \* the SavingsSummary returned

pricingVars == << issueList, resourceDataMap, savingsSummary >>

\* A CostExplorerService and its caller.
VARIABLES
    costCalls            \* getCostByService calls, oldest first: the window, the billing
                         \* queries sent, the response, and the summary or error it ended with

costVars == << costCalls >>

\* An Ec2Client and one listInstances call on it.
VARIABLES
    ec2CloudWatch,       \* this.cloudWatch is set (the config carried credentials)
    ec2IncludeMetrics,   \* options.includeMetrics of the call
    ec2Response,         \* the instances of the DescribeInstances response
    ec2Cursor,           \* the instance whose utilization query is awaited, 0 for none
    ec2Collected,        \* the instances array built so far
    ec2MetricCalls,      \* the utilization queries sent, with their outcomes
    ec2Pc,               \* idle, describe, metric, returned or threw
    ec2Error             \* the error listInstances threw

ec2Vars == << ec2CloudWatch, ec2IncludeMetrics, ec2Response, ec2Cursor, ec2Collected,
              ec2MetricCalls, ec2Pc, ec2Error >>

\* A generic RulesEngine and its caller.
VARIABLES
    loadedRules,         \* RulesEngine.rules
    evaluated,           \* the resources of the latest evaluateResources call
    matched              \* what that call returned: << rule index, resource index >> pairs

engineVars == << loadedRules, evaluated, matched >>

\* The GET routes of /api/v1/scan and their callers.
VARIABLES
    reads                \* the GET requests answered, oldest first: route, caller, scanId,
                         \* status, and the stored scans whose contents the body carried

readVars == << reads >>

\* CustomerStorage and the Stripe webhook.
VARIABLES
    subscriptions,         \* CustomerStorage.subscriptions, in insertion order
    customerSubscriptions, \* CustomerStorage.customerSubscriptions: customerId -> subscriptionIds
    webhooks               \* the webhook events handled, oldest first

subsVars == << subscriptions, customerSubscriptions, webhooks >>

libVars == << rulesVars, pricingVars, costVars, ec2Vars, engineVars, readVars, subsVars >>

vars == << scanVars, libVars >>

\* Values of the MOCK_AWS environment variable.
ProcessEnvValues == {"true", "false", "TRUE", "undefined"}

\* envSchema.MOCK_AWS: z.string().optional().default('false').transform(val => val === 'true')
envSchemaMockAws(value) == (IF value = "undefined" THEN "false" ELSE value) = "true"

\* A flag read as set whenever the variable holds a non-empty string.
isMockAwsTruthy(value) == value \notin {"undefined", ""}

\* isMockAws(): process.env.MOCK_AWS === 'true'
isMockAws(value) == value = "true"

NoCreds == -1

MockCreds == 0

Call(op, cred) == [op |-> op, cred |-> cred]

NoTask == [state |-> "idle", items |-> << >>]

NoTasks == [ec2 |-> NoTask, ebs |-> NoTask, snap |-> NoTask]

NoOutcomes == [sts |-> NoOutcome, ceProbe |-> NoOutcome, ec2Probe |-> NoOutcome, cost |-> NoOutcome]

NoResult == [scanId |-> 0]

NoRequest == [roleArn |-> << >>, user |-> ""]

\* The state before any request: the scans table may hold an earlier scan.
InitFor(S, ent, E) ==
    /\ processEnv \in E
    /\ mockAws = envSchemaMockAws(processEnv)
    /\ activeSubs \in SUBSET Users
    /\ db \in { << >> } \cup { [i \in {0} |-> [customerId |-> u, result |-> NoResult]] : u \in Users }
    /\ stsSessions = << >>
    /\ pc = [s \in S |-> "Idle"]
    /\ entry = [s \in S |-> ent]
    /\ req = [s \in S |-> NoRequest]
    /\ scanId = [s \in S |-> 0]
    /\ assumedCredentials = [s \in S |-> NoCreds]
    /\ calls = [s \in S |-> << >>]
    /\ outcome = [s \in S |-> NoOutcomes]
    /\ validation = [s \in S |-> NoValidation]
    /\ tasks = [s \in S |-> NoTasks]
    /\ result = [s \in S |-> NoResult]
    /\ error = [s \in S |-> NoError]
    /\ failedStage = [s \in S |-> "none"]
    /\ reply = [s \in S |-> 0]

Invocations == DOMAIN pc

(***************************************************************************)
(* Fragments shared by the actions.                                        *)
(***************************************************************************)
SetCtl(s, p, e, stage, status) ==
    /\ pc' = [pc EXCEPT ![s] = p]
    /\ error' = [error EXCEPT ![s] = e]
    /\ failedStage' = [failedStage EXCEPT ![s] = stage]
    /\ reply' = [reply EXCEPT ![s] = status]

Goto(s, p) == SetCtl(s, p, error[s], failedStage[s], reply[s])

\* The handler answers without runScan having thrown.
Respond(s, status) == SetCtl(s, "Responded", error[s], failedStage[s], status)

\* A failure that is dropped, leaving the invocation at its await.
ThrowSwallowed(s, e, stage) == Goto(s, pc[s])

\* runScan (or assumeRole, called directly) throws e; the route's catch block
\* turns it into a status.
Throw(s, e, stage) ==
    IF entry[s] = "route"
    THEN SetCtl(s, "Responded", e, stage, RouteStatus(e))
    ELSE SetCtl(s, "Threw", e, stage, 0)

Log(s, entries) == calls' = [calls EXCEPT ![s] = calls[s] \o entries]

\* A module-level credential cache: the credentials of the latest exchange.
CollectorCredentialsCached(s) == Len(stsSessions)

\* The credentials runScan passes to the prober and the collectors.
CollectorCredentials(s) == assumedCredentials[s]

\* savings as assembled from calculateSavingsSummary: the issue count per rule
\* (monetary figures are the pricing package's).
SavingsOf(issues) ==
    [resourceBreakdown |-> Len(issues),
     ruleBreakdown |-> { issues[i].ruleId : i \in 1..Len(issues) }]

InventoryOf(ec2Instances, ebsVolumes, ebsSnapshots) ==
    [ec2Instances |-> Len(ec2Instances), ebsVolumes |-> Len(ebsVolumes),
     ebsSnapshots |-> Len(ebsSnapshots)]

\* The ScanResult runScan builds.
ScanResult(id, ec2Instances, ebsVolumes, ebsSnapshots) ==
    LET issues == evaluateAllResources(ec2Instances, ebsVolumes, ebsSnapshots)
    IN  [scanId |-> id,
         timestamp |-> "now",
         region |-> "us-east-1",
         costSummary |-> "CostSummary",
         resourceInventory |-> InventoryOf(ec2Instances, ebsVolumes, ebsSnapshots),
         issues |-> issues,
         savings |-> SavingsOf(issues)]

(***************************************************************************)
(* assumeRole up to its network call.                                      *)
(***************************************************************************)
AssumeRoleCall(s, roleArn) ==
    IF ~RoleArnShapeOk(roleArn) THEN
        /\ Log(s, << Call("assumeRole", NoCreds) >>)
        /\ Throw(s, AssumeRoleError("Invalid role ARN format", "InvalidRoleArn"), "AssumingRole")
    ELSE
        /\ Log(s, << Call("assumeRole", NoCreds), Call("net:sts.AssumeRole", NoCreds) >>)
        /\ Goto(s, "AwaitSts")

(***************************************************************************)
(* Promise.all over the three collector promises.                          *)
(***************************************************************************)
\* A join that waits for all promises and treats a rejection as an empty list.
JoinStateIgnoringFailures(t) ==
    IF \E c \in Collectors : t[c].state = "pending" THEN "pending" ELSE "fulfilled"

\* Promise.all: rejected as soon as one promise is, fulfilled when all are.
JoinState(t) ==
    IF \E c \in Collectors : t[c].state = "failed" THEN "rejected"
    ELSE IF \A c \in Collectors : t[c].state = "ok" THEN "fulfilled"
    ELSE "pending"

(***************************************************************************)
(* runScan from the join of the collectors to its return: the rules        *)
(* engine is constructed (reading rules.json), the issues evaluated, the   *)
(* savings summarized and the result built; the handler then checks the    *)
(* result and calls scanStorage.store, whose upsert is the next await.     *)
(***************************************************************************)
RunScanTail(s, id, t, log, P) ==
    \E rulesOk \in P.rules :
        IF rulesOk THEN
            /\ result' = [result EXCEPT ![s] = ScanResult(id, t.ec2.items, t.ebs.items, t.snap.items)]
            /\ Log(s, log \o << Call("FinOpsRulesEngine", NoCreds),
                                Call("evaluateAllResources", NoCreds),
                                Call("calculateSavingsSummary", NoCreds) >>)
            /\ Goto(s, "AwaitUpsert")
        ELSE
            /\ result' = result
            /\ Log(s, log \o << Call("FinOpsRulesEngine", NoCreds) >>)
            /\ Throw(s, PlainError("Failed to load rules"), "EvaluatingRules")

MockTasks ==
    [ec2  |-> [state |-> "ok", items |-> mockEc2Instances],
     ebs  |-> [state |-> "ok", items |-> mockEbsVolumes],
     snap |-> [state |-> "ok", items |-> mockEbsSnapshots]]

\* The three collector calls of the inventory stage, each choosing the mock
\* or the real implementation, and what follows without leaving the process.
StartInventory(s, id, cred, log, P) ==
    IF isMockAws(processEnv) THEN
        /\ tasks' = [tasks EXCEPT ![s] = MockTasks]
        /\ RunScanTail(s, id, MockTasks,
                       log \o << Call("getEc2Instances", cred),
                                 Call("getEbsVolumes", cred),
                                 Call("getSnapshots", cred) >>, P)
    ELSE
        /\ tasks' = [tasks EXCEPT ![s] = [c \in Collectors |-> [state |-> "pending", items |-> << >>]]]
        /\ result' = result
        /\ Log(s, log \o << Call("getEc2Instances", cred),
                            Call("net:ec2.DescribeInstances", cred),
                            Call("getEbsVolumes", cred),
                            Call("net:ec2.DescribeVolumes", cred),
                            Call("getSnapshots", cred),
                            Call("net:ec2.DescribeSnapshots", cred) >>)
        /\ Goto(s, "AwaitInventory")

\* awsClient.getLast30DaysCostByService: the mock summary, or the billing
\* query of the real implementation.
StartCostCollection(s, id, cred, P) ==
    IF isMockAws(processEnv) THEN
        StartInventory(s, id, cred, << Call("getLast30DaysCostByService", cred) >>, P)
    ELSE
        /\ UNCHANGED << tasks, result >>
        /\ Log(s, << Call("getLast30DaysCostByService", cred),
                     Call("net:ce.GetCostAndUsage", cred) >>)
        /\ Goto(s, "AwaitCost")

\* runScan from its first line to its first await that leaves the process.
RunScanStart(s, roleArn, P) ==
    \E id \in ScanIds :
        /\ scanId' = [scanId EXCEPT ![s] = id]
        /\ IF mockAws THEN
               /\ assumedCredentials' = [assumedCredentials EXCEPT ![s] = MockCreds]
               /\ StartCostCollection(s, id, MockCreds, P)
           ELSE
               /\ UNCHANGED << assumedCredentials, tasks, result >>
               /\ AssumeRoleCall(s, roleArn)

(***************************************************************************)
(* Actions.                                                                *)
(***************************************************************************)
\* POST /api/v1/scan/run arrives (authMiddleware has set request.user).
PostScanRun(s, P) ==
    /\ pc[s] = "Idle"
    /\ entry[s] = "route"
    /\ \E arn \in P.arns, u \in P.users :
          /\ req' = [req EXCEPT ![s] = [roleArn |-> arn, user |-> u]]
          /\ IF ~ZodRoleArnOk(arn) THEN
                 /\ Respond(s, RouteStatus(ZodError))
                 /\ UNCHANGED << scanId, assumedCredentials, tasks, result, calls >>
             ELSE IF u \in activeSubs THEN
                 RunScanStart(s, arn, P)
             ELSE
                 /\ Goto(s, "AwaitScanCount")
                 /\ UNCHANGED << scanId, assumedCredentials, tasks, result, calls >>
    /\ UNCHANGED << processEnv, mockAws, activeSubs, db, stsSessions, entry, outcome, validation >>

\* An access check that writes the customer's row before the scan has run.
ScanCountRespondReserving(s, P) ==
    /\ pc[s] = "AwaitScanCount"
    /\ \E ok \in P.dbOk :
          IF ~ok THEN
              /\ Respond(s, 500)
              /\ UNCHANGED << db, scanId, assumedCredentials, tasks, result, calls >>
          ELSE IF { k \in DOMAIN db : db[k].customerId = req[s].user } = {} THEN
              /\ RunScanStart(s, req[s].roleArn, P)
              /\ db' = [k \in DOMAIN db \cup {0} |->
                           IF k = 0 THEN [customerId |-> req[s].user, result |-> NoResult]
                           ELSE db[k]]
          ELSE
              /\ Respond(s, 403)
              /\ UNCHANGED << db, scanId, assumedCredentials, tasks, result, calls >>
    /\ UNCHANGED << processEnv, mockAws, activeSubs, stsSessions, entry, req, outcome, validation >>

\* canUseFreeScan: prisma.scan.count({ where: { customerId } }) answers.
ScanCountRespond(s, P) ==
    /\ pc[s] = "AwaitScanCount"
    /\ \E ok \in P.dbOk :
          IF ~ok THEN
              /\ Respond(s, 500)
              /\ UNCHANGED << scanId, assumedCredentials, tasks, result, calls >>
          ELSE IF { k \in DOMAIN db : db[k].customerId = req[s].user } = {} THEN
              RunScanStart(s, req[s].roleArn, P)
          ELSE
              /\ Respond(s, 403)
              /\ UNCHANGED << scanId, assumedCredentials, tasks, result, calls >>
    /\ UNCHANGED << processEnv, mockAws, activeSubs, db, stsSessions, entry, req, outcome, validation >>

\* assumeRole called directly by a user of the aws-client package.
DirectAssumeRole(s) ==
    /\ pc[s] = "Idle"
    /\ entry[s] = "assumeRole"
    /\ \E arn \in ArnInputs :
          /\ req' = [req EXCEPT ![s] = [roleArn |-> arn, user |-> ""]]
          /\ AssumeRoleCall(s, arn)
    /\ UNCHANGED << processEnv, mockAws, activeSubs, db, stsSessions, entry, scanId, assumedCredentials,
                    outcome, validation, tasks, result >>

\* stsClient.send(AssumeRoleCommand) answers.
StsRespond(s, P) ==
    /\ pc[s] = "AwaitSts"
    /\ \E out \in P.sts :
          /\ outcome' = [outcome EXCEPT ![s].sts = out]
          /\ IF out.kind = "ok" THEN
                 /\ stsSessions' = Append(stsSessions, s)
                 /\ assumedCredentials' = [assumedCredentials EXCEPT ![s] = Len(stsSessions) + 1]
                 /\ IF entry[s] = "assumeRole" THEN
                        /\ Goto(s, "Returned")
                        /\ UNCHANGED calls
                    ELSE
                        /\ Log(s, << Call("validatePermissions", CollectorCredentials(s)'),
                                     Call("net:ce.probe", CollectorCredentials(s)') >>)
                        /\ Goto(s, "AwaitCeProbe")
             ELSE
                 /\ Throw(s, AssumeRoleFailure(out), "AssumingRole")
                 /\ UNCHANGED << stsSessions, assumedCredentials, calls >>
    /\ UNCHANGED << processEnv, mockAws, activeSubs, db, entry, req, scanId, validation, tasks, result >>

\* validateCostExplorerAccess answers; validatePermissions goes on to EC2.
CeProbeRespond(s, P) ==
    /\ pc[s] = "AwaitCeProbe"
    /\ \E out \in P.ceProbe :
          /\ outcome' = [outcome EXCEPT ![s].ceProbe = out]
          /\ validation' = [validation EXCEPT ![s] = AfterCostExplorerProbe(validation[s], out)]
    /\ Log(s, << Call("net:ec2.probe", CollectorCredentials(s)) >>)
    /\ Goto(s, "AwaitEc2Probe")
    /\ UNCHANGED << processEnv, mockAws, activeSubs, db, stsSessions, entry, req, scanId, assumedCredentials,
                    tasks, result >>

\* validateEc2Access answers; validatePermissions returns or throws, and
\* runScan goes on to the cost collector.
Ec2ProbeRespond(s, P) ==
    /\ pc[s] = "AwaitEc2Probe"
    /\ \E out \in P.ec2Probe :
          /\ outcome' = [outcome EXCEPT ![s].ec2Probe = out]
          /\ validation' = [validation EXCEPT ![s] = AfterEc2Probe(validation[s], out)]
          /\ IF ValidationPassed(AfterEc2Probe(validation[s], out)) THEN
                 StartCostCollection(s, scanId[s], CollectorCredentials(s), P)
             ELSE
                 /\ Throw(s, PlainError("Permission validation failed"), "ValidatingPermissions")
                 /\ UNCHANGED << calls, tasks, result >>
    /\ UNCHANGED << processEnv, mockAws, activeSubs, db, stsSessions, entry, req, scanId,
                    assumedCredentials >>

\* The billing query of the cost collector answers; on success runScan
\* starts the three collectors and awaits their join.
CostRespond(s, P) ==
    /\ pc[s] = "AwaitCost"
    /\ \E out \in P.cost :
          /\ outcome' = [outcome EXCEPT ![s].cost = out]
          /\ IF CostCollected(out) THEN
                 StartInventory(s, scanId[s], CollectorCredentials(s), << >>, P)
             ELSE
                 /\ Throw(s, CostFailure(out), "CollectingCost")
                 /\ UNCHANGED << tasks, calls, result >>
    /\ UNCHANGED << processEnv, mockAws, activeSubs, db, stsSessions, entry, req, scanId,
                    assumedCredentials, validation >>

\* One collector's listing answers, in any order.  A collector that answers
\* after the join was rejected is not cancelled; its answer is dropped.
CollectorRespond(s, c, P) ==
    /\ tasks[s][c].state = "pending"
    /\ \E out \in P.listing, items \in P.listed[c] \cup { << >> } :
          /\ out.kind = "ok" \/ items = << >>
          /\ LET t == [tasks[s] EXCEPT ![c] = [state |-> IF out.kind = "ok" THEN "ok" ELSE "failed",
                                               items |-> items]]
             IN  /\ tasks' = [tasks EXCEPT ![s] = t]
                 /\ IF pc[s] # "AwaitInventory" \/ JoinState(t) = "pending" THEN
                        UNCHANGED << pc, error, failedStage, reply, result, calls >>
                    ELSE IF JoinState(t) = "rejected" THEN
                        /\ Throw(s, ProviderError(out), "CollectingInventory")
                        /\ UNCHANGED << result, calls >>
                    ELSE
                        RunScanTail(s, scanId[s], t, << >>, P)
    /\ UNCHANGED << processEnv, mockAws, activeSubs, db, stsSessions, entry, req, scanId, assumedCredentials,
                    outcome, validation >>

\* scanStorage.store: prisma.scan.upsert answers.
UpsertRespond(s, P) ==
    /\ pc[s] = "AwaitUpsert"
    /\ \E ok \in P.dbOk :
          IF ok THEN
              /\ db' = [k \in DOMAIN db \cup {scanId[s]} |->
                           IF k = scanId[s]
                           THEN [customerId |-> req[s].user, result |-> result[s]]
                           ELSE db[k]]
              /\ Goto(s, "AwaitVerify")
          ELSE
              /\ db' = db
              /\ Respond(s, 500)
    /\ UNCHANGED << processEnv, mockAws, activeSubs, stsSessions, entry, req, scanId, assumedCredentials,
                    calls, outcome, validation, tasks, result >>

\* The reads that verify the stored row answer; the handler replies.
VerifyRespond(s, P) ==
    /\ pc[s] = "AwaitVerify"
    /\ \E ok \in P.dbOk :
          IF ok /\ scanId[s] \in DOMAIN db THEN Respond(s, 200) ELSE Respond(s, 500)
    /\ UNCHANGED << processEnv, mockAws, activeSubs, db, stsSessions, entry, req, scanId, assumedCredentials,
                    calls, outcome, validation, tasks, result >>

(***************************************************************************)
(* FinOpsRulesEngine used on its own: a caller holds an inventory and      *)
(* evaluates it, possibly more than once, on one engine instance.          *)
(***************************************************************************)
RuleIds == {"idle_ec2", "unattached_ebs", "old_snapshot"}

\* Resources a caller may pass, on both sides of each rule's thresholds.
InstancePool ==
    { Instance("i-idle", "t3.medium", "running", TRUE, 499),
      Instance("i-five", "t3.medium", "running", TRUE, 500),
      Instance("i-nocpu", "m5.large", "running", FALSE, 0),
      Instance("i-stopped", "t3.medium", "stopped", TRUE, 0) }

VolumePool ==
    { Volume("vol-free", 200, "gp2", "available", FALSE),
      Volume("vol-avail-att", 100, "gp3", "available", TRUE),
      Volume("vol-inuse", 100, "gp3", "in-use", FALSE) }

SnapshotPool ==
    { Snapshot("snap-30", 100, "completed", 30),
      Snapshot("snap-31", 100, "completed", 31),
      Snapshot("snap-pending", 100, "pending", 90) }

NoInventory == [ec2Instances |-> << >>, ebsVolumes |-> << >>, ebsSnapshots |-> << >>]

RulesIdle ==
    /\ engineRules = {}
    /\ resources = NoInventory
    /\ evaluations = << >>

\* new FinOpsRulesEngine(): rules.json is read; any of its rules may be enabled.
RulesInit ==
    /\ engineRules \in SUBSET RuleIds
    /\ \E a \in 0..MaxInventory :
       \E b \in 0..(MaxInventory - a) :
       \E c \in 0..(MaxInventory - a - b) :
           resources \in [ec2Instances : [1..a -> InstancePool],
                          ebsVolumes : [1..b -> VolumePool],
                          ebsSnapshots : [1..c -> SnapshotPool]]
    /\ evaluations = << >>

\* An issues array kept on the engine across calls.
IssuesBufferShared(evals) == IF evals = << >> THEN << >> ELSE evals[Len(evals)]

\* evaluateAllResources starts from a fresh local array.
IssuesBuffer(evals) == << >>

\* rulesEngine.evaluateAllResources({ ec2Instances, ebsVolumes, ebsSnapshots })
EvaluateAllResources ==
    /\ Len(evaluations) < MaxEvaluations
    /\ evaluations' = Append(evaluations,
                             IssuesBuffer(evaluations)
                                 \o evaluateAllResources(resources.ec2Instances, resources.ebsVolumes,
                                                         resources.ebsSnapshots))
    /\ UNCHANGED << engineRules, resources >>

\* rulesEngine.loadRules(rules)
LoadRules ==
    /\ \E rs \in SUBSET RuleIds : rs # engineRules /\ engineRules' = rs
    /\ UNCHANGED << resources, evaluations >>

(***************************************************************************)
(* SavingsCalculator.  Money is counted in whole units: prices of the      *)
(* instance table and every reported figure in cents, intermediate         *)
(* products in mills (tenths of a cent), which holds every product of the  *)
(* code exactly for whole-gigabyte sizes.                                  *)
(***************************************************************************)
EC2_INSTANCE_PRICING ==
    "t2.micro" :> 876 @@ "t2.small" :> 1752 @@ "t2.medium" :> 3504 @@ "t2.large" :> 7008 @@
    "t2.xlarge" :> 14016 @@ "t2.2xlarge" :> 28032 @@ "t3.micro" :> 730 @@ "t3.small" :> 1460 @@
    "t3.medium" :> 2920 @@ "t3.large" :> 5840 @@ "t3.xlarge" :> 11680 @@
    "t3.2xlarge" :> 23360 @@ "t3a.micro" :> 657 @@ "t3a.small" :> 1314 @@
    "t3a.medium" :> 2628 @@ "t3a.large" :> 5256 @@ "t3a.xlarge" :> 10512 @@
    "t3a.2xlarge" :> 21024 @@ "t4g.micro" :> 584 @@ "t4g.small" :> 1168 @@
    "t4g.medium" :> 2336 @@ "t4g.large" :> 4672 @@ "t4g.xlarge" :> 9344 @@
    "t4g.2xlarge" :> 18688 @@ "m5.large" :> 7770 @@ "m5.xlarge" :> 15540 @@
    "m5.2xlarge" :> 31080 @@ "m5.4xlarge" :> 62160 @@ "m5.8xlarge" :> 124320 @@
    "m5.12xlarge" :> 186480 @@ "m5.16xlarge" :> 248640 @@ "m5.24xlarge" :> 372960 @@
    "m5a.large" :> 6993 @@ "m5a.xlarge" :> 13986 @@ "m5a.2xlarge" :> 27972 @@
    "m5a.4xlarge" :> 55944 @@ "m5a.8xlarge" :> 111888 @@ "m5a.12xlarge" :> 167832 @@
    "m5a.16xlarge" :> 223776 @@ "m5a.24xlarge" :> 335664 @@ "m6i.large" :> 7770 @@
    "m6i.xlarge" :> 15540 @@ "m6i.2xlarge" :> 31080 @@ "m6i.4xlarge" :> 62160 @@
    "m6i.8xlarge" :> 124320 @@ "m6i.12xlarge" :> 186480 @@ "m6i.16xlarge" :> 248640 @@
    "m6i.24xlarge" :> 372960 @@ "m6i.32xlarge" :> 497280 @@ "c5.large" :> 7770 @@
    "c5.xlarge" :> 15540 @@ "c5.2xlarge" :> 31080 @@ "c5.4xlarge" :> 62160 @@
    "c5.9xlarge" :> 139860 @@ "c5.12xlarge" :> 186480 @@ "c5.18xlarge" :> 279720 @@
    "c5.24xlarge" :> 372960 @@ "c5a.large" :> 6993 @@ "c5a.xlarge" :> 13986 @@
    "c5a.2xlarge" :> 27972 @@ "c5a.4xlarge" :> 55944 @@ "c5a.8xlarge" :> 111888 @@
    "c5a.12xlarge" :> 167832 @@ "c5a.16xlarge" :> 223776 @@ "c5a.24xlarge" :> 335664 @@
    "c6i.large" :> 7770 @@ "c6i.xlarge" :> 15540 @@ "c6i.2xlarge" :> 31080 @@
    "c6i.4xlarge" :> 62160 @@ "c6i.8xlarge" :> 124320 @@ "c6i.12xlarge" :> 186480 @@
    "c6i.16xlarge" :> 248640 @@ "c6i.24xlarge" :> 372960 @@ "c6i.32xlarge" :> 497280 @@
    "r5.large" :> 12648 @@ "r5.xlarge" :> 25296 @@ "r5.2xlarge" :> 50592 @@
    "r5.4xlarge" :> 101184 @@ "r5.8xlarge" :> 202368 @@ "r5.12xlarge" :> 303552 @@
    "r5.16xlarge" :> 404736 @@ "r5.24xlarge" :> 607104 @@ "r5a.large" :> 11383 @@
    "r5a.xlarge" :> 22766 @@ "r5a.2xlarge" :> 45532 @@ "r5a.4xlarge" :> 91064 @@
    "r5a.8xlarge" :> 182128 @@ "r5a.12xlarge" :> 273192 @@ "r5a.16xlarge" :> 364256 @@
    "r5a.24xlarge" :> 546384 @@ "r6i.large" :> 12648 @@ "r6i.xlarge" :> 25296 @@
    "r6i.2xlarge" :> 50592 @@ "r6i.4xlarge" :> 101184 @@ "r6i.8xlarge" :> 202368 @@
    "r6i.12xlarge" :> 303552 @@ "r6i.16xlarge" :> 404736 @@ "r6i.24xlarge" :> 607104 @@
    "r6i.32xlarge" :> 809472 @@ "i3.large" :> 15600 @@ "i3.xlarge" :> 31200 @@
    "i3.2xlarge" :> 62400 @@ "i3.4xlarge" :> 124800 @@ "i3.8xlarge" :> 249600 @@
    "i3.16xlarge" :> 499200 @@ "p3.2xlarge" :> 306600 @@ "p3.8xlarge" :> 1226400 @@
    "p3.16xlarge" :> 2452800 @@ "g4dn.xlarge" :> 52650 @@ "g4dn.2xlarge" :> 105300 @@
    "g4dn.4xlarge" :> 210600 @@ "g4dn.8xlarge" :> 421200 @@ "g4dn.12xlarge" :> 631800 @@
    "g4dn.16xlarge" :> 842400

\* getEc2MonthlyCost: the fallback for a type the table lacks, in cents.
DEFAULT_EC2_MONTHLY_COST == 10000

\* Prices per GB-month, in mills.
EBS_GP3_PRICE_PER_GB_MONTH == 80

EBS_GP2_PRICE_PER_GB_MONTH == 100

EBS_IO1_PRICE_PER_GB_MONTH == 125

EBS_ST1_PRICE_PER_GB_MONTH == 45

EBS_SC1_PRICE_PER_GB_MONTH == 25

EBS_SNAPSHOT_PRICE_PER_GB_MONTH == 50

\* calculateSavingsForIssue: sizes used when the resource data has none, in GB.
DEFAULT_SIZE_GB == 20

\* calculateSavingsForIssue: the cost assumed for an unknown rule, in mills.
UNKNOWN_RULE_MONTHLY_COST == 50000

\* String.toLowerCase, on the type names the model passes.
toLowerCase(str) ==
    IF str = "T3.MEDIUM" THEN "t3.medium" ELSE IF str = "GP2" THEN "gp2" ELSE str

\* The characters of the volume type names the model passes.
Spelling ==
    "gp2" :> <<"g", "p", "2">> @@ "gp3" :> <<"g", "p", "3">> @@ "io1" :> <<"i", "o", "1">> @@
    "io2" :> <<"i", "o", "2">> @@ "st1" :> <<"s", "t", "1">> @@ "sc1" :> <<"s", "c", "1">> @@
    "standard" :> <<"s", "t", "a", "n", "d", "a", "r", "d">> @@ "" :> << >> @@
    "io2-gp2" :> <<"i", "o", "2", "-", "g", "p", "2">>

\* String.includes
includes(str, needle) == Includes(Spelling[str], Spelling[needle])

\* Cents.
getEc2MonthlyCost(instanceType) ==
    LET normalizedType == toLowerCase(instanceType)
    IN  IF normalizedType \in DOMAIN EC2_INSTANCE_PRICING
        THEN EC2_INSTANCE_PRICING[normalizedType]
        ELSE DEFAULT_EC2_MONTHLY_COST

\* Mills.  normalizedType.includes(x) is decided on whole type names.
\* Every volume type priced at the gp3 rate.
getEbsVolumeMonthlyCostFlat(volumeType, sizeGB) == sizeGB * EBS_GP3_PRICE_PER_GB_MONTH

getEbsVolumeMonthlyCost(volumeType, sizeGB) ==
    LET normalizedType == toLowerCase(volumeType)
        pricePerGB == IF includes(normalizedType, "gp2") THEN EBS_GP2_PRICE_PER_GB_MONTH
                      ELSE IF includes(normalizedType, "io1") \/ includes(normalizedType, "io2")
                           THEN EBS_IO1_PRICE_PER_GB_MONTH
                      ELSE IF includes(normalizedType, "st1") THEN EBS_ST1_PRICE_PER_GB_MONTH
                      ELSE IF includes(normalizedType, "sc1") THEN EBS_SC1_PRICE_PER_GB_MONTH
                      ELSE EBS_GP3_PRICE_PER_GB_MONTH
    IN  sizeGB * pricePerGB

\* Mills.
getEbsSnapshotMonthlyCost(sizeGB) == sizeGB * EBS_SNAPSHOT_PRICE_PER_GB_MONTH

\* Math.round(x * 100) / 100: mills to the nearest cent, a half going up.
Round2Down(mills) == mills \div 10

Round2(mills) == (mills + 5) \div 10

\* resourceData with every field undefined; "" and 0 are falsy like undefined.
NoData == [instanceType |-> "", volumeSize |-> 0, volumeType |-> "", snapshotSize |-> 0]

\* currentMonthlyCost before rounding, in mills.
currentMonthlyCost(issue, resourceData) ==
    IF issue.ruleId = "idle_ec2" THEN
        10 * getEc2MonthlyCost(IF resourceData.instanceType # "" THEN resourceData.instanceType
                               ELSE "t3.medium")
    ELSE IF issue.ruleId = "unattached_ebs" THEN
        getEbsVolumeMonthlyCost(
            IF resourceData.volumeType # "" THEN resourceData.volumeType ELSE "gp3",
            IF resourceData.volumeSize # 0 THEN resourceData.volumeSize ELSE DEFAULT_SIZE_GB)
    ELSE IF issue.ruleId = "old_snapshot" THEN
        getEbsSnapshotMonthlyCost(
            IF resourceData.snapshotSize # 0 THEN resourceData.snapshotSize ELSE DEFAULT_SIZE_GB)
    ELSE UNKNOWN_RULE_MONTHLY_COST

\* Every known rule estimated at 90%.
potentialMonthlySavingsConservative(ruleId, cost) ==
    IF ruleId \in {"idle_ec2", "unattached_ebs", "old_snapshot"} THEN (cost * 9) \div 10
    ELSE (cost * 8) \div 10

\* potentialMonthlySavings before rounding, in mills.
potentialMonthlySavings(ruleId, cost) ==
    IF ruleId = "idle_ec2" THEN (cost * 9) \div 10
    ELSE IF ruleId \in {"unattached_ebs", "old_snapshot"} THEN cost
    ELSE (cost * 8) \div 10

\* Math.round((n / d) * 10^k), digit by digit so that no product leaves the
\* 32-bit integers of the checker; n >= 0, d > 0.
RECURSIVE RoundedRatio(_, _, _)
RoundedRatio(n, d, k) ==
    IF k = 0 THEN (n \div d) + (IF 2 * (n % d) >= d THEN 1 ELSE 0)
    ELSE (n \div d) * (10 ^ k) + RoundedRatio((n % d) * 10, d, k - 1)

\* The RuleSavings returned: money in cents, the percentage in hundredths.
calculateSavingsForIssue(issue, resourceData) ==
    LET cost == currentMonthlyCost(issue, resourceData)
        saved == potentialMonthlySavings(issue.ruleId, cost)
    IN  [ruleId |-> issue.ruleId,
         resourceId |-> issue.resourceId,
         resourceType |-> issue.resourceType,
         currentMonthlyCost |-> Round2(cost),
         potentialMonthlySavings |-> Round2(saved),
         savingsPercentage |-> IF cost > 0 THEN RoundedRatio(saved, cost, 4) ELSE 0]

\* resourceDataMap?.get(resourceId)
DataOf(map, resourceId) == IF resourceId \in DOMAIN map THEN map[resourceId] ELSE NoData

RECURSIVE SumOf(_, _)
SumOf(f, S) == IF S = {} THEN 0 ELSE LET x == CHOOSE x \in S : TRUE IN f[x] + SumOf(f, S \ {x})

\* The yearly total taken from the issues' unrounded savings.
totalAnnualSavingsPerIssue(totalMonthlySavings, issues, map) ==
    Round2(12 * SumOf([i \in DOMAIN issues |->
                          potentialMonthlySavings(issues[i].ruleId,
                              currentMonthlyCost(issues[i], DataOf(map, issues[i].resourceId)))],
                      DOMAIN issues))

\* Math.round(totalMonthlySavings * 12 * 100) / 100, in cents.
totalAnnualSavings(totalMonthlySavings, issues, map) == Round2(totalMonthlySavings * 10 * 12)

\* A summary whose rule entries keep only the last issue of each rule.
calculateSavingsSummaryLastOfRule(issues, map) ==
    LET resourceBreakdown ==
            [i \in DOMAIN issues |-> calculateSavingsForIssue(issues[i], DataOf(map, issues[i].resourceId))]
        saved == [i \in DOMAIN issues |-> resourceBreakdown[i].potentialMonthlySavings]
        lastOf(r) == CHOOSE i \in DOMAIN issues :
                        /\ issues[i].ruleId = r
                        /\ \A j \in DOMAIN issues : issues[j].ruleId = r => j <= i
        total == Round2(10 * SumOf(saved, DOMAIN issues))
    IN  [totalMonthlySavings |-> total,
         totalAnnualSavings |-> totalAnnualSavings(total, issues, map),
         ruleBreakdown |->
             [r \in { issues[i].ruleId : i \in DOMAIN issues } |->
                 [count |-> 1,
                  monthlySavings |-> saved[lastOf(r)],
                  annualSavings |-> 12 * saved[lastOf(r)]]],
         resourceBreakdown |-> resourceBreakdown]

calculateSavingsSummary(issues, map) ==
    LET resourceBreakdown ==
            [i \in DOMAIN issues |-> calculateSavingsForIssue(issues[i], DataOf(map, issues[i].resourceId))]
        saved == [i \in DOMAIN issues |-> resourceBreakdown[i].potentialMonthlySavings]
        ofRule(r) == { i \in DOMAIN issues : issues[i].ruleId = r }
        total == Round2(10 * SumOf(saved, DOMAIN issues))
    IN  [totalMonthlySavings |-> total,
         totalAnnualSavings |-> totalAnnualSavings(total, issues, map),
         ruleBreakdown |->
             [r \in { issues[i].ruleId : i \in DOMAIN issues } |->
                 [count |-> Cardinality(ofRule(r)),
                  monthlySavings |-> Round2(10 * SumOf(saved, ofRule(r))),
                  annualSavings |-> Round2(10 * 12 * SumOf(saved, ofRule(r)))]],
         resourceBreakdown |-> resourceBreakdown]

\* Issues with the data of their resource, as a caller may pass them.
PricedIssue(ruleId, resourceId, resourceType, data) ==
    [issue |-> Issue(ruleId, resourceId, resourceType, "low", "review"), data |-> data]

InstanceTypes == DOMAIN EC2_INSTANCE_PRICING \cup {"T3.MEDIUM", "x9.unknown", ""}

VolumeTypes == {"gp2", "GP2", "gp3", "io1", "io2", "st1", "sc1", "standard", "io2-gp2", ""}

SizesGB == {0, 1, 3, 20, 125, 200, 1000}

IssuePool ==
    { PricedIssue("idle_ec2", << "i", t >>, "ec2", [NoData EXCEPT !.instanceType = t]) :
          t \in InstanceTypes }
    \cup { PricedIssue("unattached_ebs", << "vol", t, n >>, "ebs-volume",
                       [NoData EXCEPT !.volumeType = t, !.volumeSize = n]) :
               t \in VolumeTypes, n \in SizesGB }
    \cup { PricedIssue("old_snapshot", << "snap", n >>, "ebs-snapshot",
                       [NoData EXCEPT !.snapshotSize = n]) : n \in SizesGB }
    \cup { PricedIssue("unknown_rule", << "x" >>, "other", NoData) }

\* The issues a longer list is completed with.
SmallIssuePool ==
    { x \in IssuePool :
          x.issue.resourceId \in { << "i", "t2.micro" >>, << "i", "t3.medium" >>,
                                   << "vol", "st1", 3 >>, << "snap", 1 >>, << "snap", 1000 >>,
                                   << "x" >> } }

NoSummary == [totalMonthlySavings |-> -1]

PricingIdle ==
    /\ issueList = << >>
    /\ resourceDataMap = << >>
    /\ savingsSummary = NoSummary

\* A caller builds an issue list and the data map of its resources.
PricingInit ==
    /\ \E n \in 0..MaxIssues :
       \E priced \in [1..n -> IssuePool] :
           /\ \A i \in 2..n : priced[i] \in SmallIssuePool
           /\ issueList = [i \in 1..n |-> priced[i].issue]
           /\ resourceDataMap =
                  [id \in { priced[i].issue.resourceId : i \in { j \in 1..n : priced[j].data # NoData } } |->
                      (CHOOSE x \in IssuePool : x.issue.resourceId = id).data]
    /\ savingsSummary = NoSummary

\* savingsCalculator.calculateSavingsSummary(issues, resourceDataMap)
CalculateSavingsSummary ==
    /\ savingsSummary = NoSummary
    /\ savingsSummary' = calculateSavingsSummary(issueList, resourceDataMap)
    /\ UNCHANGED << issueList, resourceDataMap >>

(***************************************************************************)
(* CostExplorerService.getCostByService.  Dates are counted in half days,  *)
(* raw amounts and reported costs in cents, percentages in hundredths.     *)
(***************************************************************************)
\* Half days in a day: the unit (1000 * 60 * 60 * 24 ms) of daysDiff.
DAY == 2

\* The longest window accepted, in days.
MAX_WINDOW_DAYS == 365

\* The days of a month the costs are normalized to.
MONTH_DAYS == 30

\* Math.ceil((endDate - startDate) / day)
daysDiff(startDate, endDate) == (endDate - startDate + DAY - 1) \div DAY

\* The window checks without the upper bound on the length.
WindowErrorUnbounded(startDate, endDate) ==
    IF startDate >= endDate THEN
        CostExplorerServiceError("Start date must be before end date", "")
    ELSE NoError

\* The window checks made before any query.
WindowError(startDate, endDate) ==
    IF startDate >= endDate THEN
        CostExplorerServiceError("Start date must be before end date", "")
    ELSE IF daysDiff(startDate, endDate) > MAX_WINDOW_DAYS THEN
        CostExplorerServiceError("Date range cannot exceed 365 days", "")
    ELSE NoError

\* A group of the response: the service key and the amount.
Group(service, amount) == [service |-> service, amount |-> amount]

\* The services of the groups in the order the Map first sees them.
RECURSIVE ServiceOrder(_)
ServiceOrder(groups) ==
    IF groups = << >> THEN << >>
    ELSE LET rest == ServiceOrder(SubSeq(groups, 1, Len(groups) - 1))
             last == groups[Len(groups)].service
         IN  IF \E i \in DOMAIN rest : rest[i] = last THEN rest ELSE Append(rest, last)

\* serviceCostsMap.get(service) once every group is added.
RawCostOf(groups, service) ==
    SumOf([i \in DOMAIN groups |-> groups[i].amount],
          { i \in DOMAIN groups : groups[i].service = service })

RawTotal(groups) == SumOf([i \in DOMAIN groups |-> groups[i].amount], DOMAIN groups)

\* A cost reported as collected, without normalization.
NormalizedMonthlyUnscaled(cost, days) == cost

\* Math.round((cost / daysDiff) * 30 * 100) / 100
NormalizedMonthly(cost, days) == RoundedRatio(cost * MONTH_DAYS, days, 0)

\* The list left in the order of the Map.
SortByCostUnsorted(services) == services

\* Array.prototype.sort((a, b) => b.cost - a.cost): stable, descending.
RECURSIVE SortByCost(_)
SortByCost(services) ==
    IF services = << >> THEN << >>
    ELSE LET rest == SortByCost(SubSeq(services, 1, Len(services) - 1))
             x == services[Len(services)]
             k == Cardinality({ i \in DOMAIN rest : rest[i].cost >= x.cost })
         IN  SubSeq(rest, 1, k) \o << x >> \o SubSeq(rest, k + 1, Len(rest))

\* The CostSummary built from the groups of a response.
CostSummaryOf(groups, days) ==
    LET totalCost == RawTotal(groups)
        order == ServiceOrder(groups)
    IN  [totalCost |-> NormalizedMonthly(totalCost, days),
         days |-> days,
         currency |-> "USD",
         services |->
             SortByCost([i \in DOMAIN order |->
                 [service |-> order[i],
                  cost |-> NormalizedMonthly(RawCostOf(groups, order[i]), days),
                  percentage |-> IF totalCost > 0
                                 THEN RoundedRatio(RawCostOf(groups, order[i]), totalCost, 4)
                                 ELSE 0]])]

\* mock/data.ts
mockCostSummary ==
    [totalCost |-> 284750,
     days |-> 30,
     currency |-> "USD",
     services |-> << [service |-> "Amazon Elastic Compute Cloud - Compute", cost |-> 124530, percentage |-> 4375],
                     [service |-> "Amazon Elastic Block Store", cost |-> 85620, percentage |-> 3005],
                     [service |-> "Amazon Simple Storage Service", cost |-> 34250, percentage |-> 1202],
                     [service |-> "Amazon Relational Database Service", cost |-> 28540, percentage |-> 1001],
                     [service |-> "Amazon CloudWatch", cost |-> 11810, percentage |-> 415] >>]

\* Responses of GetCostAndUsage: n services billed `small` each, then one
\* billed `big` (none when big = 0).
Groups(n, small, big) ==
    [i \in 1..n |-> Group(i, small)] \o (IF big > 0 THEN << Group(0, big) >> ELSE << >>)

BillingOk(groups) == [kind |-> "ok", name |-> "", credMsg |-> FALSE, groups |-> groups]

BillingError(name) == [kind |-> "error", name |-> name, credMsg |-> FALSE, groups |-> << >>]

BillingResponses ==
    { BillingOk(Groups(n, small, big)) :
          n \in {0, 1, 2, 3, 22, 27}, small \in {5, 6, 333}, big \in {0, 1000, 99838, 99890} }
    \cup { BillingOk(<< Group(1, 333), Group(2, 7), Group(1, 333), Group(0, 1000) >>) }
    \cup { BillingError(name) : name \in CostExplorerErrors }

\* Responses to a later call on the same object, among them the doubles of
\* responses above.
LaterBillingResponses ==
    { BillingOk(Groups(2, 666, 2000)), BillingOk(Groups(27, 12, 199676)),
      BillingOk(Groups(3, 10, 0)), BillingError("ThrottlingException") }

\* Windows asked for: endDate - startDate in half days.
Windows == {-2, 0, 1, 2, 20, 40, 60, 729, 730, 731, 732}

LaterWindows == {0, 40}

CostIdle == costCalls = << >>

NoCostSummary == [totalCost |-> -1]

\* getCostByService(startDate, endDate) up to its await.
GetCostByService ==
    /\ Len(costCalls) < MaxCostCalls
    /\ \A i \in DOMAIN costCalls : costCalls[i].state # "pending"
    /\ \E startDate \in {0, 3},
          length \in (IF costCalls = << >> THEN Windows ELSE LaterWindows) :
          LET endDate == startDate + length
              e == WindowError(startDate, endDate)
          IN  costCalls' = Append(costCalls,
                  [startDate |-> startDate,
                   endDate |-> endDate,
                   queries |-> IF e = NoError THEN 1 ELSE 0,
                   state |-> IF e = NoError THEN "pending" ELSE "threw",
                   response |-> NoOutcome,
                   summary |-> NoCostSummary,
                   error |-> e])

\* client.send(GetCostAndUsageCommand) answers.
BillingRespond ==
    /\ costCalls # << >>
    /\ costCalls[Len(costCalls)].state = "pending"
    /\ \E out \in (IF Len(costCalls) = 1 THEN BillingResponses ELSE LaterBillingResponses) :
          LET call == costCalls[Len(costCalls)]
              days == daysDiff(call.startDate, call.endDate)
          IN  costCalls' = [costCalls EXCEPT ![Len(costCalls)] =
                  IF out.kind = "ok" THEN
                      [call EXCEPT !.state = "returned", !.response = out,
                                   !.summary = CostSummaryOf(out.groups, days)]
                  ELSE
                      [call EXCEPT !.state = "threw", !.response = out,
                                   !.error = CostFailure(out)]]

(***************************************************************************)
(* Ec2Client.listInstances and the CloudWatchClient it queries.            *)
(* Utilization is counted in hundredths of a percent.                      *)
(***************************************************************************)
\* An instance of a reservation of the response.
Described(id, type, state) == [InstanceId |-> id, InstanceType |-> type, State |-> state]

\* client.send(GetMetricStatisticsCommand): datapoints (an Average of -1 is
\* an undefined one), no Datapoints field, or an error.
MetricOk(datapoints) == [kind |-> "ok", name |-> "", datapoints |-> datapoints]

MetricNoField == [kind |-> "undefined", name |-> "", datapoints |-> << >>]

MetricError(name) == [kind |-> "error", name |-> name, datapoints |-> << >>]

null == [isNull |-> TRUE, sum |-> 0, count |-> 1]

\* A failed query answered as a utilization of 0.
getMetricStatisticsZeroOnError(out) ==
    IF out.kind = "undefined" \/ (out.kind = "ok" /\ out.datapoints = << >>) THEN null
    ELSE IF out.kind = "error" THEN [isNull |-> FALSE, sum |-> 0, count |-> 1]
    ELSE [isNull |-> FALSE,
          sum |-> SumOf([i \in DOMAIN out.datapoints |->
                            IF out.datapoints[i] < 0 THEN 0 ELSE out.datapoints[i]],
                        DOMAIN out.datapoints),
          count |-> Len(out.datapoints)]

\* getEc2CpuUtilization -> getMetricStatistics: sum / values.length, or null.
getMetricStatistics(out) ==
    IF out.kind = "error" THEN null
    ELSE IF out.kind = "undefined" \/ out.datapoints = << >> THEN null
    ELSE [isNull |-> FALSE,
          sum |-> SumOf([i \in DOMAIN out.datapoints |->
                            IF out.datapoints[i] < 0 THEN 0 ELSE out.datapoints[i]],
                        DOMAIN out.datapoints),
          count |-> Len(out.datapoints)]

\* includeMetrics && this.cloudWatch && instance.State?.Name === 'running'
ShouldFetchMetrics(includeMetrics, cloudWatch, instance) ==
    includeMetrics /\ cloudWatch /\ instance.State = "running"

\* instanceData before enrichment.
InstanceData(instance) ==
    Instance(instance.InstanceId,
             IF instance.InstanceType = "" THEN "unknown" ELSE instance.InstanceType,
             IF instance.State = "" THEN "unknown" ELSE instance.State,
             FALSE, 0)

\* instanceData after the utilization query answered.
Enriched(instance, cpuUtilization) ==
    IF cpuUtilization.isNull THEN InstanceData(instance)
    ELSE [InstanceData(instance) EXCEPT
              !.hasCpu = TRUE,
              !.cpuAvg = RoundedRatio(cpuUtilization.sum, cpuUtilization.count, 0)]

\* The loop over the reservations from instance k up to its next await or
\* its end.
RECURSIVE RunLoop(_, _, _, _, _)
RunLoop(response, k, acc, includeMetrics, cloudWatch) ==
    IF k > Len(response) THEN
        [instances |-> acc, cursor |-> 0, pc |-> "returned"]
    ELSE IF response[k].InstanceId = "" THEN
        RunLoop(response, k + 1, acc, includeMetrics, cloudWatch)
    ELSE IF ShouldFetchMetrics(includeMetrics, cloudWatch, response[k]) THEN
        [instances |-> acc, cursor |-> k, pc |-> "metric"]
    ELSE
        RunLoop(response, k + 1, Append(acc, InstanceData(response[k])),
                includeMetrics, cloudWatch)

InstanceStates == {"running", "stopped", "pending"}

InstanceIds == << "i-1", "i-2", "i-3", "i-4", "i-5" >>

\* The responses of DescribeInstances: up to MaxDescribed instances i-1, i-2, ...
DescribeResponses ==
    UNION { { [k \in 1..n |-> Described(InstanceIds[k], "t3.medium", st[k])] :
                st \in [1..n -> InstanceStates] } : n \in 0..MaxDescribed }

MetricOutcomes ==
    { MetricOk(<< 499 >>), MetricOk(<< 100, 201 >>), MetricOk(<< -1 >>), MetricOk(<< >>),
      MetricNoField, MetricError("AccessDenied"), MetricError("Throttling") }

Ec2Idle ==
    /\ ec2CloudWatch = FALSE
    /\ ec2IncludeMetrics = FALSE
    /\ ec2Response = << >>
    /\ ec2Cursor = 0
    /\ ec2Collected = << >>
    /\ ec2MetricCalls = << >>
    /\ ec2Pc = "none"
    /\ ec2Error = NoError

\* new Ec2Client(config)
Ec2Init ==
    /\ ec2CloudWatch \in BOOLEAN
    /\ ec2IncludeMetrics = FALSE
    /\ ec2Response = << >>
    /\ ec2Cursor = 0
    /\ ec2Collected = << >>
    /\ ec2MetricCalls = << >>
    /\ ec2Pc = "idle"
    /\ ec2Error = NoError

Ec2Continue(response, k, acc) ==
    LET r == RunLoop(response, k, acc, ec2IncludeMetrics, ec2CloudWatch)
    IN  /\ ec2Collected' = r.instances
        /\ ec2Cursor' = r.cursor
        /\ ec2Pc' = r.pc

\* listInstances(options) up to its first await.
ListInstances ==
    /\ ec2Pc = "idle"
    /\ ec2IncludeMetrics' \in BOOLEAN
    /\ ec2Pc' = "describe"
    /\ UNCHANGED << ec2CloudWatch, ec2Response, ec2Cursor, ec2Collected, ec2MetricCalls,
                    ec2Error >>

\* client.send(DescribeInstancesCommand) answers.
DescribeInstancesRespond ==
    /\ ec2Pc = "describe"
    /\ \/ \E response \in DescribeResponses :
             /\ ec2Response' = response
             /\ Ec2Continue(response, 1, << >>)
             /\ UNCHANGED << ec2IncludeMetrics, ec2Error >>
       \/ \E name \in Ec2Errors :
             /\ ec2Error' = ProviderError(Thrown(name, FALSE))
             /\ ec2Pc' = "threw"
             /\ UNCHANGED << ec2IncludeMetrics, ec2Response, ec2Cursor, ec2Collected >>
    /\ UNCHANGED << ec2CloudWatch, ec2MetricCalls >>

\* The utilization query of the instance at the cursor answers.
MetricRespond ==
    /\ ec2Pc = "metric"
    /\ \E out \in MetricOutcomes :
          LET instance == ec2Response[ec2Cursor]
          IN  /\ ec2MetricCalls' =
                     Append(ec2MetricCalls, [instanceId |-> instance.InstanceId, out |-> out])
              /\ Ec2Continue(ec2Response, ec2Cursor + 1,
                             Append(ec2Collected, Enriched(instance, getMetricStatistics(out))))
    /\ UNCHANGED << ec2CloudWatch, ec2IncludeMetrics, ec2Response, ec2Error >>

(***************************************************************************)
(* The generic RulesEngine.  Strings are sequences of characters, a field  *)
(* is its path (<<"tags", key>> for "tags.<key>").                         *)
(***************************************************************************)
undefined == [kind |-> "undefined"]

StrValue(chars) == [kind |-> "str", s |-> chars]

NumValue(n) == [kind |-> "num", n |-> n]

\* String(value)
String(v) ==
    IF v.kind = "str" THEN v.s
    ELSE IF v.kind = "undefined" THEN <<"u", "n", "d", "e", "f", "i", "n", "e", "d">>
    ELSE IF v.n < 10 THEN << ToString(v.n) >>
    ELSE << ToString(v.n \div 10), ToString(v.n % 10) >>

\* Number(value): NaN for a string that is no numeral.
Number(v) ==
    IF v.kind = "num" THEN [nan |-> FALSE, n |-> v.n]
    ELSE IF v.kind = "undefined" THEN [nan |-> TRUE, n |-> 0]
    ELSE IF v.s = << >> THEN [nan |-> FALSE, n |-> 0]
    ELSE IF Len(v.s) = 1 /\ v.s[1] \in Digits
         THEN [nan |-> FALSE, n |-> CHOOSE d \in 0..9 : ToString(d) = v.s[1]]
    ELSE [nan |-> TRUE, n |-> 0]

\* getFieldValue(resource, field)
getFieldValue(resource, field) ==
    IF field[1] = "tags" /\ Len(field) = 2 THEN
        IF resource.hasTags /\ field[2] \in DOMAIN resource.tags
        THEN resource.tags[field[2]] ELSE undefined
    ELSE IF field[1] \in DOMAIN resource.props THEN resource.props[field[1]]
    ELSE undefined

\* The operators applied to whatever getFieldValue answered.
ApplyOperator(operator, fieldValue, value) ==
    CASE operator = "equals" -> String(fieldValue) = String(value)
      [] operator = "notEquals" -> String(fieldValue) # String(value)
      [] operator = "greaterThan" ->
            ~Number(fieldValue).nan /\ ~Number(value).nan
                /\ Number(fieldValue).n > Number(value).n
      [] operator = "lessThan" ->
            ~Number(fieldValue).nan /\ ~Number(value).nan
                /\ Number(fieldValue).n < Number(value).n
      [] operator = "contains" -> Includes(String(fieldValue), String(value))
      [] operator = "exists" -> fieldValue # undefined
      [] OTHER -> FALSE

\* A check that applies the operator to a missing field as well.
checkConditionNoShortCircuit(condition, resource) ==
    ApplyOperator(condition.operator, getFieldValue(resource, condition.field), condition.value)

\* checkCondition(condition, resource)
checkCondition(condition, resource) ==
    IF getFieldValue(resource, condition.field) = undefined /\ condition.operator # "exists"
    THEN FALSE
    ELSE ApplyOperator(condition.operator, getFieldValue(resource, condition.field),
                       condition.value)

\* evaluateResource: the indices of the rules applied to the resource.
RulesAppliedTo(rules, resource) ==
    { r \in DOMAIN rules : rules[r].resourceType = resource.type \/ rules[r].resourceType = "*" }

\* evaluateResources(resources): the matching results, resource by resource
\* and rule by rule.
RECURSIVE evaluateResources(_, _)
evaluateResources(rules, rs) ==
    IF rs = << >> THEN << >>
    ELSE LET k == Len(rs)
             applied == RulesAppliedTo(rules, rs[k])
             hits == { r \in applied : checkCondition(rules[r].condition, rs[k]) }
             RECURSIVE InOrder(_)
             InOrder(r) == IF r > Len(rules) THEN << >>
                           ELSE (IF r \in hits THEN << << r, k >> >> ELSE << >>) \o InOrder(r + 1)
         IN  evaluateResources(rules, SubSeq(rs, 1, k - 1)) \o InOrder(1)

\* rulesJson.filter((rule) => rule.enabled)
RECURSIVE FilterEnabled(_)
FilterEnabled(rulesJson) ==
    IF rulesJson = << >> THEN << >>
    ELSE FilterEnabled(SubSeq(rulesJson, 1, Len(rulesJson) - 1))
             \o (IF rulesJson[Len(rulesJson)].enabled
                 THEN << rulesJson[Len(rulesJson)] >> ELSE << >>)

GenericRule(type, enabled, field, operator, value) ==
    [resourceType |-> type, enabled |-> enabled,
     condition |-> [field |-> field, operator |-> operator, value |-> value]]

Running == <<"r", "u", "n", "n", "i", "n", "g">>

ConditionValues == { StrValue(Running), StrValue(<<"r", "u", "n">>), NumValue(5), StrValue(<<"5">>) }

RulePool ==
    { GenericRule(type, TRUE, field, operator, value) :
          type \in {"ec2-instance", "ebs-volume", "*"},
          field \in { <<"state">>, <<"cpu">>, <<"size">>, <<"tags", "env">> },
          operator \in {"equals", "notEquals", "greaterThan", "lessThan", "contains", "exists",
                        "matches"},
          value \in ConditionValues }

LaterRulePool ==
    { GenericRule("*", FALSE, <<"state">>, "exists", NumValue(5)),
      GenericRule("ec2-instance", TRUE, <<"cpu">>, "lessThan", NumValue(5)) }

ResourcePool ==
    { [type |-> "ec2-instance", props |-> [state |-> StrValue(Running), cpu |-> NumValue(4)],
       hasTags |-> TRUE, tags |-> [env |-> StrValue(<<"5">>)]],
      [type |-> "ec2-instance", props |-> [state |-> StrValue(<<"r", "u", "n">>)],
       hasTags |-> FALSE, tags |-> << >>],
      [type |-> "ebs-volume", props |-> [state |-> StrValue(<< >>), size |-> NumValue(5)],
       hasTags |-> TRUE, tags |-> [team |-> StrValue(Running)]],
      [type |-> "ebs-snapshot", props |-> [size |-> NumValue(12), cpu |-> StrValue(<<"x">>)],
       hasTags |-> FALSE, tags |-> << >>] }

EngineIdle ==
    /\ loadedRules = << >>
    /\ evaluated = << >>
    /\ matched = << >>

\* engine.loadRules(rulesJson)
LoadRulesJson ==
    /\ loadedRules = << >>
    /\ \E first \in RulePool, rest \in { << >> } \cup { << r >> : r \in LaterRulePool } :
          loadedRules' = FilterEnabled(rest \o << first >>)
    /\ UNCHANGED << evaluated, matched >>

\* engine.evaluateResources(resources)
EvaluateResources ==
    /\ loadedRules # << >>
    /\ evaluated = << >>
    /\ \E n \in 1..MaxEvaluated :
       \E rs \in [1..n -> ResourcePool] :
          /\ evaluated' = rs
          /\ matched' = evaluateResources(loadedRules, rs)
    /\ UNCHANGED loadedRules

(***************************************************************************)
(* The GET routes of /api/v1/scan.  A request carries the caller that its  *)
(* Authorization header authenticates, or none.                            *)
(***************************************************************************)
\* No Authorization header, or a token verifyJWT rejects.
Unauthenticated == ""

Callers == Users \cup { Unauthenticated }

\* Scan ids a caller may ask for: the stored one and one that is not stored.
RequestedIds == 0..1

\* scanStorage.get(scanId): the ids whose row the call returns.
get(id) == IF id \in DOMAIN db THEN { id } ELSE {}

\* scanStorage.getCustomerId(scanId)
getCustomerId(id) == IF id \in DOMAIN db THEN db[id].customerId ELSE Unauthenticated

\* scanStorage.list(): every row of the table.
scanStorageList == DOMAIN db

\* subscriptionService.hasFullAccess(customerId)
hasFullAccess(customerId) == customerId \in activeSubs

Answer(route, caller, id, status, contents, limited) ==
    /\ Len(reads) < MaxReads
    /\ reads' = Append(reads, [route |-> route, caller |-> caller, scanId |-> id,
                               status |-> status, contents |-> contents, limited |-> limited])

\* GET /api/v1/scan
GetScanList ==
    \E caller \in Callers : Answer("list", caller, 0, 200, scanStorageList, FALSE)

\* GET /api/v1/scan/:scanId/debug
GetScanDebug ==
    \E caller \in Callers, id \in RequestedIds :
        Answer("debug", caller, id, 200, get(id), FALSE)

\* GET /api/v1/scan/:scanId/report
GetScanReport ==
    \E caller \in Callers, id \in RequestedIds :
        IF get(id) = {} THEN Answer("report", caller, id, 404, {}, FALSE)
        ELSE Answer("report", caller, id, 200, get(id), FALSE)

\* A handler that answers whoever is authenticated.
GetScanAnyOwner ==
    \E caller \in Callers, id \in RequestedIds :
        IF caller = Unauthenticated THEN Answer("scan", caller, id, 401, {}, FALSE)
        ELSE IF get(id) = {} THEN Answer("scan", caller, id, 404, {}, FALSE)
        ELSE Answer("scan", caller, id, 200, get(id), ~hasFullAccess(caller))

\* GET /api/v1/scan/:scanId, behind authMiddleware
GetScan ==
    \E caller \in Callers, id \in RequestedIds :
        IF caller = Unauthenticated THEN Answer("scan", caller, id, 401, {}, FALSE)
        ELSE IF get(id) = {} THEN Answer("scan", caller, id, 404, {}, FALSE)
        ELSE IF getCustomerId(id) # caller THEN Answer("scan", caller, id, 403, {}, FALSE)
        ELSE Answer("scan", caller, id, 200, get(id), ~hasFullAccess(caller))

ReadIdle == reads = << >>

(***************************************************************************)
(* SubscriptionService.handleWebhookEvent on the in-memory CustomerStorage.*)
(* The events are those of one Stripe subscription of one customer, who is *)
(* registered with the Stripe customer id the events carry.                *)
(***************************************************************************)
StripeSubscription == "S"

Subscriber == "u1"

\* Subscription['status'] values Stripe reports for the subscription.
StripeStatuses == {"active", "past_due", "canceled"}

SubIds == 1..MaxSubId

\* Map.set: the entry of the key is replaced in place, a new key is appended.
MapSet(map, subscription) ==
    IF \E i \in DOMAIN map : map[i].subscriptionId = subscription.subscriptionId
    THEN [i \in DOMAIN map |->
             IF map[i].subscriptionId = subscription.subscriptionId THEN subscription ELSE map[i]]
    ELSE Append(map, subscription)

\* Array.filter on an id list.
Without(ids, id) ==
    LET keep(x) == x # id IN SelectSeq(ids, keep)

\* this.customerSubscriptions.get(customerId) || []
SubscriptionIdsOf(customerId) ==
    IF customerId \in DOMAIN customerSubscriptions THEN customerSubscriptions[customerId] ELSE << >>

\* customerStorage.upsertSubscription(subscription)
upsertSubscription(subscription) ==
    LET existing == SubscriptionIdsOf(subscription.customerId)
        tracked == \E i \in DOMAIN existing : existing[i] = subscription.subscriptionId
    IN  /\ subscriptions' = MapSet(subscriptions, subscription)
        /\ customerSubscriptions' =
               IF tracked THEN customerSubscriptions
               ELSE [c \in DOMAIN customerSubscriptions \cup { subscription.customerId } |->
                        IF c = subscription.customerId
                        THEN Append(existing, subscription.subscriptionId)
                        ELSE customerSubscriptions[c]]

\* customerStorage.getSubscriptionByStripeId(stripeSubscriptionId)
getSubscriptionByStripeId(stripeSubscriptionId) ==
    LET found == { i \in DOMAIN subscriptions :
                       subscriptions[i].stripeSubscriptionId = stripeSubscriptionId }
    IN  IF found = {} THEN undefined
        ELSE subscriptions[CHOOSE i \in found : \A j \in found : i <= j]

\* customerStorage.getSubscription(subscriptionId)
getSubscription(subscriptionId) ==
    LET found == { i \in DOMAIN subscriptions : subscriptions[i].subscriptionId = subscriptionId }
    IN  IF found = {} THEN undefined ELSE subscriptions[CHOOSE i \in found : TRUE]

\* customerStorage.getActiveSubscription(customerId)
getActiveSubscription(customerId) ==
    LET ids == SubscriptionIdsOf(customerId)
        active == { i \in DOMAIN ids :
                        /\ getSubscription(ids[i]) # undefined
                        /\ getSubscription(ids[i]).status = "active" }
    IN  IF active = {} THEN undefined
        ELSE getSubscription(ids[CHOOSE i \in active : \A j \in active : i <= j])

\* customerStorage.deleteSubscription(subscriptionId)
deleteSubscription(subscriptionId) ==
    LET subscription == getSubscription(subscriptionId)
        isKept(x) == x.subscriptionId # subscriptionId
        filtered == Without(SubscriptionIdsOf(subscription.customerId), subscriptionId)
    IN  IF subscription = undefined THEN UNCHANGED << subscriptions, customerSubscriptions >>
        ELSE /\ subscriptions' = SelectSeq(subscriptions, isKept)
             /\ customerSubscriptions' =
                    IF filtered = << >>
                    THEN [c \in DOMAIN customerSubscriptions \ { subscription.customerId } |->
                             customerSubscriptions[c]]
                    ELSE [c \in DOMAIN customerSubscriptions \cup { subscription.customerId } |->
                             IF c = subscription.customerId THEN filtered
                             ELSE customerSubscriptions[c]]

\* syncSubscription: stripe.subscriptions.retrieve answers with the status
\* Stripe holds; the record gets a subscriptionId of its own.
syncSubscription(stripeSubscriptionId, customerId, stripeStatus) ==
    \E id \in SubIds :
        upsertSubscription([subscriptionId |-> id, customerId |-> customerId,
                            stripeSubscriptionId |-> stripeSubscriptionId,
                            status |-> stripeStatus])

WebhookEvent(type, stripeStatus) == [type |-> type, status |-> stripeStatus]

WebhookEvents ==
    { WebhookEvent(type, st) :
          type \in {"checkout.session.completed", "customer.subscription.created",
                    "customer.subscription.updated"},
          st \in StripeStatuses }
    \cup { WebhookEvent("customer.subscription.deleted", "canceled") }

\* subscriptionService.handleWebhookEvent(event)
HandleWebhookEvent ==
    /\ Len(webhooks) < MaxWebhooks
    /\ \E event \in WebhookEvents :
          /\ webhooks' = Append(webhooks, event)
          /\ IF event.type = "customer.subscription.deleted" THEN
                 LET existingSub == getSubscriptionByStripeId(StripeSubscription)
                 IN  IF existingSub # undefined THEN deleteSubscription(existingSub.subscriptionId)
                     ELSE UNCHANGED << subscriptions, customerSubscriptions >>
             ELSE syncSubscription(StripeSubscription, Subscriber, event.status)

SubsIdle ==
    /\ subscriptions = << >>
    /\ customerSubscriptions = << >>
    /\ webhooks = << >>

(***************************************************************************)
(* Specifications.                                                         *)
(***************************************************************************)
\* The library objects at rest, while the scan pipeline runs.
LibIdle == RulesIdle /\ PricingIdle /\ CostIdle /\ Ec2Idle /\ EngineIdle /\ ReadIdle /\ SubsIdle

\* One POST /scan/run request, from arrival to reply, in the full environment.
Init == InitFor({1}, "route", ProcessEnvValues) /\ LibIdle

Next ==
    \/ \E s \in Invocations : PostScanRun(s, FullProfile) /\ UNCHANGED libVars
    \/ \E s \in Invocations : ScanCountRespond(s, FullProfile) /\ UNCHANGED libVars
    \/ \E s \in Invocations : StsRespond(s, FullProfile) /\ UNCHANGED libVars
    \/ \E s \in Invocations : CeProbeRespond(s, FullProfile) /\ UNCHANGED libVars
    \/ \E s \in Invocations : Ec2ProbeRespond(s, FullProfile) /\ UNCHANGED libVars
    \/ \E s \in Invocations : CostRespond(s, FullProfile) /\ UNCHANGED libVars
    \/ \E s \in Invocations, c \in Collectors : CollectorRespond(s, c, FullProfile) /\ UNCHANGED libVars
    \/ \E s \in Invocations : UpsertRespond(s, FullProfile) /\ UNCHANGED libVars
    \/ \E s \in Invocations : VerifyRespond(s, FullProfile) /\ UNCHANGED libVars

Spec == Init /\ [][Next]_vars

\* Every awaited call of the invocation eventually answers.
Fairness ==
    \A s \in {1} :
        /\ WF_scanVars(ScanCountRespond(s, FullProfile))
        /\ WF_scanVars(StsRespond(s, FullProfile))
        /\ WF_scanVars(CeProbeRespond(s, FullProfile))
        /\ WF_scanVars(Ec2ProbeRespond(s, FullProfile))
        /\ WF_scanVars(CostRespond(s, FullProfile))
        /\ \A c \in Collectors : WF_scanVars(CollectorRespond(s, c, FullProfile))
        /\ WF_scanVars(UpsertRespond(s, FullProfile))
        /\ WF_scanVars(VerifyRespond(s, FullProfile))

SpecLive == Init /\ [][Next]_vars /\ Fairness

\* assumeRole called directly with any role identifier.
InitAssume == InitFor({1}, "assumeRole", {"true", "false"}) /\ LibIdle

NextAssume ==
    \/ \E s \in Invocations : DirectAssumeRole(s) /\ UNCHANGED libVars
    \/ \E s \in Invocations : StsRespond(s, FullProfile) /\ UNCHANGED libVars

SpecAssume == InitAssume /\ [][NextAssume]_vars

\* NumScans requests interleaved, in the narrow environment.
InitConc ==
    /\ InitFor(1..NumScans, "route", {"false"})
    /\ activeSubs \in { {}, Users }
    /\ db = << >>
    /\ LibIdle

NextConc ==
    \/ \E s \in Invocations : PostScanRun(s, NarrowProfile) /\ UNCHANGED libVars
    \/ \E s \in Invocations : ScanCountRespond(s, NarrowProfile) /\ UNCHANGED libVars
    \/ \E s \in Invocations : StsRespond(s, NarrowProfile) /\ UNCHANGED libVars
    \/ \E s \in Invocations : CeProbeRespond(s, NarrowProfile) /\ UNCHANGED libVars
    \/ \E s \in Invocations : Ec2ProbeRespond(s, NarrowProfile) /\ UNCHANGED libVars
    \/ \E s \in Invocations : CostRespond(s, NarrowProfile) /\ UNCHANGED libVars
    \/ \E s \in Invocations, c \in Collectors : CollectorRespond(s, c, NarrowProfile) /\ UNCHANGED libVars
    \/ \E s \in Invocations : UpsertRespond(s, NarrowProfile) /\ UNCHANGED libVars
    \/ \E s \in Invocations : VerifyRespond(s, NarrowProfile) /\ UNCHANGED libVars

SpecConc == InitConc /\ [][NextConc]_vars

\* No request and no direct call in flight.
ScanIdle ==
    /\ InitFor({}, "none", {"false"})
    /\ activeSubs = {}
    /\ db = << >>

\* One engine instance evaluating one inventory.
InitRules == ScanIdle /\ RulesInit /\ PricingIdle /\ CostIdle /\ Ec2Idle /\ EngineIdle /\ ReadIdle /\ SubsIdle

NextRules ==
    \/ EvaluateAllResources /\ UNCHANGED << scanVars, pricingVars, costVars, ec2Vars, engineVars, readVars, subsVars >>
    \/ LoadRules /\ UNCHANGED << scanVars, pricingVars, costVars, ec2Vars, engineVars, readVars, subsVars >>

SpecRules == InitRules /\ [][NextRules]_vars

\* One SavingsCalculator call on one issue list.
InitPricing == ScanIdle /\ RulesIdle /\ PricingInit /\ CostIdle /\ Ec2Idle /\ EngineIdle /\ ReadIdle /\ SubsIdle

NextPricing ==
    \/ CalculateSavingsSummary /\ UNCHANGED << scanVars, rulesVars, costVars, ec2Vars, engineVars, readVars, subsVars >>

SpecPricing == InitPricing /\ [][NextPricing]_vars

\* One CostExplorerService object called up to MaxCostCalls times.
InitCost == ScanIdle /\ RulesIdle /\ PricingIdle /\ CostIdle /\ Ec2Idle /\ EngineIdle /\ ReadIdle /\ SubsIdle

NextCost ==
    \/ GetCostByService /\ UNCHANGED << scanVars, rulesVars, pricingVars, ec2Vars, engineVars, readVars, subsVars >>
    \/ BillingRespond /\ UNCHANGED << scanVars, rulesVars, pricingVars, ec2Vars, engineVars, readVars, subsVars >>

SpecCost == InitCost /\ [][NextCost]_vars

\* One Ec2Client and one listInstances call.
InitEc2 == ScanIdle /\ RulesIdle /\ PricingIdle /\ CostIdle /\ Ec2Init /\ EngineIdle /\ ReadIdle /\ SubsIdle

NextEc2 ==
    \/ ListInstances /\ UNCHANGED << scanVars, rulesVars, pricingVars, costVars, engineVars, readVars, subsVars >>
    \/ DescribeInstancesRespond /\ UNCHANGED << scanVars, rulesVars, pricingVars, costVars, engineVars, readVars, subsVars >>
    \/ MetricRespond /\ UNCHANGED << scanVars, rulesVars, pricingVars, costVars, engineVars, readVars, subsVars >>

SpecEc2 == InitEc2 /\ [][NextEc2]_vars

\* One generic RulesEngine, loaded once and asked once.
InitEngine == ScanIdle /\ LibIdle

NextEngine ==
    \/ LoadRulesJson /\ UNCHANGED << scanVars, rulesVars, pricingVars, costVars, ec2Vars, readVars, subsVars >>
    \/ EvaluateResources /\ UNCHANGED << scanVars, rulesVars, pricingVars, costVars, ec2Vars, readVars, subsVars >>

SpecEngine == InitEngine /\ [][NextEngine]_vars

\* GET requests on a table that holds at most one stored scan.
InitRead == InitFor({}, "none", {"false"}) /\ LibIdle

NextRead ==
    \/ GetScanList /\ UNCHANGED << scanVars, rulesVars, pricingVars, costVars, ec2Vars, engineVars, subsVars >>
    \/ GetScanDebug /\ UNCHANGED << scanVars, rulesVars, pricingVars, costVars, ec2Vars, engineVars, subsVars >>
    \/ GetScanReport /\ UNCHANGED << scanVars, rulesVars, pricingVars, costVars, ec2Vars, engineVars, subsVars >>
    \/ GetScan /\ UNCHANGED << scanVars, rulesVars, pricingVars, costVars, ec2Vars, engineVars, subsVars >>

SpecRead == InitRead /\ [][NextRead]_vars

\* The webhook events of one Stripe subscription, handled one after another.
InitSubs == ScanIdle /\ LibIdle

NextSubs ==
    HandleWebhookEvent
        /\ UNCHANGED << scanVars, rulesVars, pricingVars, costVars, ec2Vars, engineVars, readVars >>

SpecSubs == InitSubs /\ [][NextSubs]_vars

(***************************************************************************)
(* Properties.                                                             *)
(***************************************************************************)
OpsOf(s) == { calls[s][i].op : i \in 1..Len(calls[s]) }

CountOp(s, op) == Cardinality({ i \in 1..Len(calls[s]) : calls[s][i].op = op })

CollectorOps ==
    { "getLast30DaysCostByService", "net:ce.GetCostAndUsage",
      "getEc2Instances", "net:ec2.DescribeInstances",
      "getEbsVolumes", "net:ec2.DescribeVolumes",
      "getSnapshots", "net:ec2.DescribeSnapshots" }

ProberOps == { "validatePermissions", "net:ce.probe", "net:ec2.probe" }

\* C1: assumeRole accepts a role identifier, and issues the token exchange,
\* exactly when it matches arn:aws:iam::<12 digits>:role/<name>; any other
\* string fails with InvalidRoleArn and no token-exchange call.
C1_ShapeCheckIsTheArnPattern ==
    \A s \in Invocations :
        (entry[s] = "assumeRole" /\ pc[s] # "Idle") =>
            IF MatchesArnPattern(req[s].roleArn)
            THEN CountOp(s, "net:sts.AssumeRole") = 1 /\ error[s].code # "InvalidRoleArn"
            ELSE error[s].code = "InvalidRoleArn" /\ CountOp(s, "net:sts.AssumeRole") = 0

\* C2: with mock mode off, a collector call is found issued only in states
\* where the scan's token exchange answered with credentials and its
\* validatePermissions has finished with success.
C2_FailFastOrdering ==
    \A s \in Invocations :
        (~mockAws /\ OpsOf(s) \cap CollectorOps # {}) =>
            /\ outcome[s].sts.kind = "ok"
            /\ assumedCredentials[s] >= 1
            /\ validation[s].done
            /\ validation[s].success
            /\ failedStage[s] \notin {"AssumingRole", "ValidatingPermissions"}

C2_Witness ==
    \E s \in Invocations : ~mockAws /\ CollectorOps \subseteq OpsOf(s)

\* C3: whenever a collector has failed, runScan has thrown and there is no
\* ScanResult; a ScanResult exists only when all three collectors succeeded,
\* and its three counts are the lengths of the three collected sequences.
C3_AllSucceedOrAbort ==
    \A s \in Invocations :
        /\ (\E c \in Collectors : tasks[s][c].state = "failed") =>
               (result[s] = NoResult /\ error[s] # NoError /\ pc[s] = "Responded")
        /\ result[s] # NoResult =>
               /\ \A c \in Collectors : tasks[s][c].state = "ok"
               /\ result[s].resourceInventory.ec2Instances = Len(tasks[s].ec2.items)
               /\ result[s].resourceInventory.ebsVolumes = Len(tasks[s].ebs.items)
               /\ result[s].resourceInventory.ebsSnapshots = Len(tasks[s].snap.items)

C3_Witness ==
    \E s \in Invocations :
        /\ ~mockAws
        /\ result[s] # NoResult
        /\ result[s].resourceInventory.ec2Instances >= 1
        /\ result[s].resourceInventory.ebsSnapshots >= 1

CredentialFields ==
    { "accessKeyId", "secretAccessKey", "sessionToken", "expiration", "credentials",
      "assumedCredentials" }

\* C4: under interleaved scans, a scan that runs with mock mode off calls
\* assumeRole once, is issued at most one set of credentials, passes to every
\* prober and collector call the credentials issued to itself, and returns a
\* ScanResult without a credential field.
C4_CredentialsAreScanLocal ==
    \A s \in Invocations :
        ~mockAws =>
            /\ scanId[s] # 0 => CountOp(s, "assumeRole") = 1
            /\ CountOp(s, "net:sts.AssumeRole") <= 1
            /\ Cardinality({ t \in 1..Len(stsSessions) : stsSessions[t] = s }) <= 1
            /\ \A i \in 1..Len(calls[s]) :
                   calls[s][i].op \in ProberOps \cup CollectorOps =>
                       /\ calls[s][i].cred \in 1..Len(stsSessions)
                       /\ stsSessions[calls[s][i].cred] = s
            /\ result[s] # NoResult => DOMAIN result[s] \cap CredentialFields = {}

C4_Witness ==
    \E s, t \in Invocations :
        /\ s # t
        /\ ~mockAws
        /\ "net:ec2.DescribeSnapshots" \in OpsOf(s)
        /\ "net:ec2.DescribeSnapshots" \in OpsOf(t)
        /\ result[s] # NoResult

FailedCapabilities(s) ==
    (IF outcome[s].ceProbe.kind = "error" THEN << "Cost Explorer" >> ELSE << >>)
        \o (IF outcome[s].ec2Probe.kind = "error" THEN << "EC2" >> ELSE << >>)

ReportedCapabilities(s) ==
    [i \in 1..Len(validation[s].errors) |-> validation[s].errors[i].service]

\* C5: validatePermissions runs the billing probe and then the inventory
\* probe whatever the billing probe answered; it throws iff a probe failed,
\* with success = false and one entry per failed capability; a billing
\* AccessDenied with a passing inventory probe lists exactly "Cost Explorer".
C5_ProberReportsEveryFailure ==
    \A s \in Invocations :
        /\ "validatePermissions" \in OpsOf(s) => CountOp(s, "net:ce.probe") = 1
        /\ outcome[s].ceProbe.kind # "none" => CountOp(s, "net:ec2.probe") = 1
        /\ validation[s].done =>
               /\ outcome[s].ceProbe.kind # "none" /\ outcome[s].ec2Probe.kind # "none"
               /\ ReportedCapabilities(s) = FailedCapabilities(s)
               /\ validation[s].success = (FailedCapabilities(s) = << >>)
               /\ validation[s].checks.costExplorer.success = (outcome[s].ceProbe.kind = "ok")
               /\ validation[s].checks.ec2.success = (outcome[s].ec2Probe.kind = "ok")
               /\ (failedStage[s] = "ValidatingPermissions") = (FailedCapabilities(s) # << >>)
               /\ (outcome[s].ceProbe.name = "AccessDenied" /\ outcome[s].ec2Probe.kind = "ok") =>
                      (ReportedCapabilities(s) = << "Cost Explorer" >> /\ ~validation[s].success)

C5_Witness ==
    \E s \in Invocations :
        /\ validation[s].done
        /\ outcome[s].ceProbe.name = "AccessDenied"
        /\ outcome[s].ec2Probe.kind = "ok"
        /\ failedStage[s] = "ValidatingPermissions"

\* The stage of runScan an operation belongs to: AssumingRole,
\* ValidatingPermissions, CollectingCost, CollectingInventory,
\* EvaluatingRules, CalculatingSavings.
StageRank(op) ==
    IF op \in {"assumeRole", "net:sts.AssumeRole"} THEN 1
    ELSE IF op \in ProberOps THEN 2
    ELSE IF op \in {"getLast30DaysCostByService", "net:ce.GetCostAndUsage"} THEN 3
    ELSE IF op \in CollectorOps THEN 4
    ELSE IF op \in {"FinOpsRulesEngine", "evaluateAllResources"} THEN 5
    ELSE 6

\* The stage whose work has failed, read from what the callees answered
\* (0 when none has).
FailedRank(s) ==
    IF \/ ("assumeRole" \in OpsOf(s) /\ ~RoleArnShapeOk(req[s].roleArn))
       \/ outcome[s].sts.kind \notin {"none", "ok"} THEN 1
    ELSE IF validation[s].done /\ FailedCapabilities(s) # << >> THEN 2
    ELSE IF outcome[s].cost.kind = "error" THEN 3
    ELSE IF \E c \in Collectors : tasks[s][c].state = "failed" THEN 4
    ELSE IF failedStage[s] = "EvaluatingRules" THEN 5
    ELSE 0

\* C6: a scan walks its stages in order and once: the operations it has
\* invoked appear in stage order, none twice; once a stage has failed no
\* operation of a later stage has been invoked and the scan has ended as
\* failed, without a result.
C6_SinglePassStages ==
    \A s \in Invocations :
        /\ \A i, j \in 1..Len(calls[s]) :
               i < j => StageRank(calls[s][i].op) <= StageRank(calls[s][j].op)
        /\ \A op \in OpsOf(s) : CountOp(s, op) = 1
        /\ FailedRank(s) # 0 =>
               /\ \A op \in OpsOf(s) : StageRank(op) <= FailedRank(s)
               /\ pc[s] = "Responded"
               /\ error[s] # NoError
               /\ result[s] = NoResult
               /\ reply[s] \notin {0, 200}

C6_Witness ==
    \E s \in Invocations :
        /\ ~mockAws
        /\ outcome[s].cost.kind = "error"
        /\ "getLast30DaysCostByService" \in OpsOf(s)
        /\ pc[s] = "Responded"

\* The stage a thrown error names by its class or its message.
StageNamedBy(e) ==
    IF e.class = "AssumeRoleError" THEN "AssumingRole"
    ELSE IF e.class = "Error" /\ e.msg = "Permission validation failed" THEN "ValidatingPermissions"
    ELSE IF e.class = "CostExplorerServiceError" THEN "CollectingCost"
    ELSE IF e.class = "Error" /\ e.msg = "Failed to load rules" THEN "EvaluatingRules"
    ELSE "none"

\* C7: every error runScan throws is a typed error that identifies the
\* stage that failed.
C7_ErrorNamesFailedStage ==
    \A s \in Invocations :
        (error[s] # NoError /\ error[s].class # "ZodError") =>
            StageNamedBy(error[s]) = failedStage[s]

\* The provider, or the prober, has refused the scan for lack of permission.
AuthorizationFailure(s) ==
    \/ outcome[s].sts.name = "AccessDenied"
    \/ validation[s].done /\ ~validation[s].success
    \/ outcome[s].cost.name = "AccessDenied"
    \/ /\ failedStage[s] = "CollectingInventory"
       /\ error[s].name \in {"AccessDenied", "UnauthorizedOperation"}

\* C8: a request whose scan failed for lack of permission (token exchange
\* AccessDenied, billing AccessDenied, inventory access denied, a failed
\* permission validation) is answered 403.
C8_AuthorizationFailureIs403 ==
    \A s \in Invocations :
        (reply[s] # 0 /\ AuthorizationFailure(s)) => reply[s] = 403

\* C9: a request whose cost collection failed with DataUnavailableException
\* is answered 503.
C9_DataUnavailableIs503 ==
    \A s \in Invocations :
        (reply[s] # 0 /\ outcome[s].cost.name = "DataUnavailableException") => reply[s] = 503

ClassifiedStsErrors == {"AccessDenied", "InvalidClientTokenId", "MalformedPolicyDocument"}

\* The provider threw an error assumeRole has no case for.
UnclassifiedStsError(out) ==
    out.kind = "error" /\ out.name \notin ClassifiedStsErrors /\ ~out.credMsg

AssumeRoleFailed(s) ==
    outcome[s].sts.kind \notin {"none", "ok"} /\ error[s].class = "AssumeRoleError"

\* C10 as stated: the code of a failed token exchange is one of AccessDenied,
\* InvalidCredentials, MalformedPolicy, NoCredentials, UnknownError, and is
\* UnknownError for every unclassified provider error.
C10_ClosedTaxonomy ==
    \A s \in Invocations :
        AssumeRoleFailed(s) =>
            /\ error[s].code \in {"AccessDenied", "InvalidCredentials", "MalformedPolicy",
                                  "NoCredentials", "UnknownError"}
            /\ UnclassifiedStsError(outcome[s].sts) => error[s].code = "UnknownError"

\* C10: the code of a failed token exchange is AccessDenied,
\* InvalidCredentials, MalformedPolicy, NoCredentials, IncompleteCredentials
\* (a response with a credential field missing), UnknownError, or the name of
\* the provider's error; an unclassified provider error carries its own name
\* as the code, and UnknownError only when the thrown value has no name.
C10_TaxonomyWithProviderNames ==
    \A s \in Invocations :
        AssumeRoleFailed(s) =>
            LET out == outcome[s].sts
                code == error[s].code
            IN  /\ code \in {"AccessDenied", "InvalidCredentials", "MalformedPolicy",
                             "NoCredentials", "IncompleteCredentials", "UnknownError"}
                             \cup ({out.name} \ {""})
                /\ out.kind = "incomplete" => code = "IncompleteCredentials"
                /\ out.kind = "noCredentials" => code = "NoCredentials"
                /\ out.name = "AccessDenied" => code = "AccessDenied"
                /\ out.name = "InvalidClientTokenId" => code = "InvalidCredentials"
                /\ out.name = "MalformedPolicyDocument" => code = "MalformedPolicy"
                /\ (out.kind = "error" /\ out.name \notin ClassifiedStsErrors /\ out.credMsg) =>
                       code = "NoCredentials"
                /\ UnclassifiedStsError(out) =>
                       code = (IF out.name = "" THEN "UnknownError" ELSE out.name)

C10_Witness ==
    \E s \in Invocations :
        /\ AssumeRoleFailed(s)
        /\ outcome[s].sts = Thrown("ExpiredTokenException", FALSE)
        /\ error[s].code = "ExpiredTokenException"

IssuesFor(ev, ruleId, resourceId, resourceType, riskLevel, action) ==
    Cardinality({ j \in DOMAIN ev : ev[j] = Issue(ruleId, resourceId, resourceType, riskLevel, action) })

ListedMatching(list, resource, matches) ==
    IF matches THEN Cardinality({ i \in DOMAIN list : list[i] = resource }) ELSE 0

\* C11: every issue list evaluateAllResources returns holds one idle_ec2
\* issue (medium, stop) per listed instance that is running with a CPU
\* average present and below 5, one unattached_ebs issue (high, delete) per
\* listed volume that is available and not attached, one old_snapshot issue
\* (low, delete) per listed snapshot that is completed and older than 30
\* days, and nothing else.
C11_RuleMatching ==
    \A k \in DOMAIN evaluations :
        LET ev == evaluations[k]
            idle(x) == ListedMatching(resources.ec2Instances, x,
                                      x.state = "running" /\ x.hasCpu /\ x.cpuAvg < 500)
            free(x) == ListedMatching(resources.ebsVolumes, x,
                                      x.state = "available" /\ ~x.attached)
            old(x)  == ListedMatching(resources.ebsSnapshots, x,
                                      x.state = "completed" /\ x.ageInDays > 30)
        IN  /\ \A x \in InstancePool :
                   IssuesFor(ev, "idle_ec2", x.instanceId, "ec2", "medium", "stop") = idle(x)
            /\ \A x \in VolumePool :
                   IssuesFor(ev, "unattached_ebs", x.volumeId, "ebs-volume", "high", "delete") = free(x)
            /\ \A x \in SnapshotPool :
                   IssuesFor(ev, "old_snapshot", x.snapshotId, "ebs-snapshot", "low", "delete") = old(x)
            /\ \A j \in DOMAIN ev :
                   \/ \E x \in InstancePool :
                          ev[j] = Issue("idle_ec2", x.instanceId, "ec2", "medium", "stop")
                   \/ \E x \in VolumePool :
                          ev[j] = Issue("unattached_ebs", x.volumeId, "ebs-volume", "high", "delete")
                   \/ \E x \in SnapshotPool :
                          ev[j] = Issue("old_snapshot", x.snapshotId, "ebs-snapshot", "low", "delete")

C11_Witness ==
    /\ evaluations # << >>
    /\ \E i \in DOMAIN resources.ebsSnapshots :
           resources.ebsSnapshots[i].ageInDays = 30 /\ resources.ebsSnapshots[i].state = "completed"
    /\ \E i \in DOMAIN resources.ebsSnapshots : resources.ebsSnapshots[i].ageInDays = 31
    /\ Len(evaluations[1]) = 1

Estimates ==
    IF savingsSummary = NoSummary THEN << >> ELSE savingsSummary.resourceBreakdown

\* C13: every estimate for an unattached_ebs or old_snapshot issue reports
\* potentialMonthlySavings equal to currentMonthlyCost, both in cents.
C13_FullSavingsForStorage ==
    \A i \in DOMAIN Estimates :
        Estimates[i].ruleId \in {"unattached_ebs", "old_snapshot"} =>
            Estimates[i].potentialMonthlySavings = Estimates[i].currentMonthlyCost

C13_Witness ==
    \E i \in DOMAIN Estimates :
        /\ Estimates[i].ruleId = "unattached_ebs"
        /\ DataOf(resourceDataMap, issueList[i].resourceId).volumeType = "st1"
        /\ DataOf(resourceDataMap, issueList[i].resourceId).volumeSize = 3
        /\ Estimates[i].currentMonthlyCost = 14

\* C14 as stated: every estimate for an idle_ec2 issue reports
\* potentialMonthlySavings equal to exactly 0.90 x the reported
\* currentMonthlyCost.
C14_NinetyPercentExactly ==
    \A i \in DOMAIN Estimates :
        Estimates[i].ruleId = "idle_ec2" =>
            10 * Estimates[i].potentialMonthlySavings = 9 * Estimates[i].currentMonthlyCost

\* C14: every estimate for an idle_ec2 issue reports the monthly price of the
\* instance type (100.00 for a type the table lacks) and, as savings, 0.90 x
\* that price rounded to the nearest cent: exactly 0.90 x the reported cost
\* when the price is a multiple of 10 cents, within half a cent of it
\* otherwise; t3.medium gives 29.20 and 26.28.
C14_NinetyPercentToTheCent ==
    \A i \in DOMAIN Estimates :
        Estimates[i].ruleId = "idle_ec2" =>
            LET cost == Estimates[i].currentMonthlyCost
                saved == Estimates[i].potentialMonthlySavings
                type == DataOf(resourceDataMap, issueList[i].resourceId).instanceType
            IN  /\ (10 * saved - 9 * cost) \in -4..5
                /\ cost % 10 = 0 => 10 * saved = 9 * cost
                /\ type \in DOMAIN EC2_INSTANCE_PRICING => cost = EC2_INSTANCE_PRICING[type]
                /\ type = "x9.unknown" => cost = 10000
                /\ type \in {"t3.medium", "T3.MEDIUM", ""} => (cost = 2920 /\ saved = 2628)

C14_Witness ==
    \E i \in DOMAIN Estimates :
        /\ Estimates[i].ruleId = "idle_ec2"
        /\ DataOf(resourceDataMap, issueList[i].resourceId).instanceType = "t2.micro"
        /\ Estimates[i].currentMonthlyCost = 876
        /\ Estimates[i].potentialMonthlySavings = 788

\* C15: the summary's totalAnnualSavings is exactly 12 x its reported
\* totalMonthlySavings.
C15_AnnualIsTwelveMonths ==
    savingsSummary # NoSummary =>
        savingsSummary.totalAnnualSavings = 12 * savingsSummary.totalMonthlySavings

C15_Witness ==
    /\ savingsSummary # NoSummary
    /\ Len(issueList) >= 2
    /\ \E i \in DOMAIN issueList : issueList[i].resourceId = << "i", "t2.micro" >>
    /\ savingsSummary.totalMonthlySavings > 788

Abs(x) == IF x < 0 THEN -x ELSE x

ReturnedCalls == { i \in DOMAIN costCalls : costCalls[i].state = "returned" }

DaysOf(i) == daysDiff(costCalls[i].startDate, costCalls[i].endDate)

\* h is the response g with every amount doubled.
Doubles(g, h) ==
    /\ Len(g) = Len(h)
    /\ \A k \in DOMAIN g : h[k].service = g[k].service /\ h[k].amount = 2 * g[k].amount

ServiceCosts(summary) ==
    [k \in DOMAIN summary.services |->
        << summary.services[k].service, summary.services[k].cost >>]

ScaledPairs ==
    { << i, j >> \in ReturnedCalls \X ReturnedCalls :
        /\ DaysOf(i) = 10
        /\ DaysOf(j) = 20
        /\ Doubles(costCalls[i].response.groups, costCalls[j].response.groups) }

\* C16: every returned total and every per-service cost is the raw amount
\* divided by the days of the window and multiplied by 30, to the nearest
\* cent; and a 10-day window with raw amounts X and a 20-day window with raw
\* amounts 2X are reported with the same total and the same per-service costs.
C16_NormalizationScaleInvariant ==
    /\ \A i \in ReturnedCalls :
          LET c == costCalls[i]
              groups == c.response.groups
          IN  /\ 2 * Abs(c.summary.totalCost * DaysOf(i) - 30 * RawTotal(groups)) <= DaysOf(i)
              /\ \A k \in DOMAIN c.summary.services :
                    LET line == c.summary.services[k]
                    IN  2 * Abs(line.cost * DaysOf(i) - 30 * RawCostOf(groups, line.service))
                            <= DaysOf(i)
    /\ \A p \in ScaledPairs :
          /\ costCalls[p[1]].summary.totalCost = costCalls[p[2]].summary.totalCost
          /\ ServiceCosts(costCalls[p[1]].summary) = ServiceCosts(costCalls[p[2]].summary)

C16_Witness ==
    \E p \in ScaledPairs :
        /\ costCalls[p[1]].summary.totalCost > 0
        /\ Len(costCalls[p[1]].summary.services) > 1

SumOfCosts(summary) ==
    SumOf([k \in DOMAIN summary.services |-> summary.services[k].cost],
          DOMAIN summary.services)

SumOfPercentages(summary) ==
    SumOf([k \in DOMAIN summary.services |-> summary.services[k].percentage],
          DOMAIN summary.services)

CostsAddUp(summary) ==
    Abs(SumOfCosts(summary) - summary.totalCost) <= Len(summary.services)

SortedByCostDescending(summary) ==
    \A k \in DOMAIN summary.services :
        k > 1 => summary.services[k - 1].cost >= summary.services[k].cost

Summaries == { costCalls[i].summary : i \in ReturnedCalls } \cup { mockCostSummary }

\* C17 as stated: in every summary the per-service costs add up to the total
\* within one cent per service, the percentages add up to 100 within 0.1
\* whenever the total is positive, and the services are in descending order
\* of cost.
C17_SummaryConsistent ==
    \A summary \in Summaries :
        /\ CostsAddUp(summary)
        /\ summary.totalCost > 0 => Abs(SumOfPercentages(summary) - 10000) <= 10
        /\ SortedByCostDescending(summary)

\* C17, amended: the percentages add up to 100 within 0.005 per service
\* (within 0.1 for up to 20 services); the rest as stated.
C17_SummaryConsistentPerService ==
    \A summary \in Summaries :
        /\ CostsAddUp(summary)
        /\ summary.totalCost > 0 =>
              /\ 2 * Abs(SumOfPercentages(summary) - 10000) <= Len(summary.services)
              /\ Len(summary.services) <= 20 => Abs(SumOfPercentages(summary) - 10000) <= 10
        /\ SortedByCostDescending(summary)

C17_Witness ==
    \E i \in ReturnedCalls :
        LET c == costCalls[i]
        IN  /\ c.summary.totalCost > 0
            /\ Len(c.summary.services) > 20
            /\ SumOfPercentages(c.summary) # 10000
            /\ SumOfCosts(c.summary) # c.summary.totalCost
            /\ c.response.groups[1].service # c.summary.services[1].service

WindowRejected(c) ==
    \/ c.startDate >= c.endDate
    \/ c.endDate - c.startDate > MAX_WINDOW_DAYS * DAY

\* C18: a call whose window has start >= end or is longer than 365 days
\* throws without sending a billing query; every other call sends exactly one
\* query, and the number of days it divides by is at least 1.
C18_WindowValidation ==
    \A i \in DOMAIN costCalls :
        LET c == costCalls[i]
        IN  IF WindowRejected(c)
            THEN c.state = "threw" /\ c.queries = 0 /\ c.response = NoOutcome
            ELSE /\ c.queries = 1
                 /\ DaysOf(i) >= 1
                 /\ c.state = "returned" => c.summary.days >= 1

C18_Witness ==
    /\ \E i \in DOMAIN costCalls :
          /\ costCalls[i].endDate - costCalls[i].startDate = MAX_WINDOW_DAYS * DAY + 1
          /\ costCalls[i].state = "threw"
    /\ \E i \in ReturnedCalls : costCalls[i].queries = 1 /\ costCalls[i].summary.totalCost > 0

\* The outcomes of the utilization queries sent for the instance.
MetricOutcomesOf(id) ==
    { ec2MetricCalls[m].out : m \in { m \in DOMAIN ec2MetricCalls :
                                        ec2MetricCalls[m].instanceId = id } }

MetricAbsent(out) == out.kind \in {"error", "undefined"} \/ out.datapoints = << >>

\* C19: whatever the utilization queries answer, listInstances returns the
\* instances of the DescribeInstances response, each once and in order, and
\* throws only when DescribeInstances itself failed; an instance whose query
\* failed or had no datapoints (or was never sent) has no cpuUtilization; and
\* a query is sent at most once per instance, only for running instances, and
\* only when includeMetrics was asked for.
C19_MetricFailuresNeverAbort ==
    /\ ec2Pc = "returned" =>
          [k \in DOMAIN ec2Collected |-> ec2Collected[k].instanceId]
              = [k \in DOMAIN ec2Response |-> ec2Response[k].InstanceId]
    /\ ec2Pc = "threw" => ec2MetricCalls = << >> /\ ec2Response = << >>
    /\ ec2MetricCalls # << >> => ec2Pc \in {"metric", "returned"}
    /\ \A k \in DOMAIN ec2Collected :
          (\A out \in MetricOutcomesOf(ec2Collected[k].instanceId) : MetricAbsent(out))
              => ~ec2Collected[k].hasCpu
    /\ \A m \in DOMAIN ec2MetricCalls :
          /\ ec2IncludeMetrics
          /\ \E k \in DOMAIN ec2Response :
                /\ ec2Response[k].InstanceId = ec2MetricCalls[m].instanceId
                /\ ec2Response[k].State = "running"
          /\ \A n \in DOMAIN ec2MetricCalls :
                ec2MetricCalls[n].instanceId = ec2MetricCalls[m].instanceId => n = m

C19_Witness ==
    /\ ec2Pc = "returned"
    /\ Len(ec2Collected) = 3
    /\ \E m \in DOMAIN ec2MetricCalls : ec2MetricCalls[m].out.kind = "error"
    /\ \E m \in DOMAIN ec2MetricCalls : ec2MetricCalls[m].out = MetricOk(<< >>)
    /\ \E k \in DOMAIN ec2Collected : ec2Collected[k].hasCpu

\* A collector call of the selector, and the provider request its real
\* implementation sends.
RealRequestOf ==
    [getLast30DaysCostByService |-> "net:ce.GetCostAndUsage",
     getEc2Instances |-> "net:ec2.DescribeInstances",
     getEbsVolumes |-> "net:ec2.DescribeVolumes",
     getSnapshots |-> "net:ec2.DescribeSnapshots"]

RealOps ==
    {"assumeRole", "net:sts.AssumeRole"} \cup ProberOps
        \cup { RealRequestOf[op] : op \in DOMAIN RealRequestOf }

\* C20: with the mock flag on, a scan calls neither assumeRole, nor the
\* prober, nor any provider request, holds only the dummy credentials, fails
\* for no role identifier or region (the one failure left is that of reading
\* the rules file) and returns the result of the fixtures (4 instances, 5
\* volumes, 4 snapshots); and in every scan, each collector call made took the
\* real implementation exactly if the scan called assumeRole.
C20_MockModeAllOrNothing ==
    \A s \in Invocations :
        /\ mockAws =>
              /\ OpsOf(s) \cap RealOps = {}
              /\ assumedCredentials[s] \in {NoCreds, MockCreds}
              /\ stsSessions = << >>
              /\ error[s] # NoError => failedStage[s] = "EvaluatingRules"
              /\ result[s] # NoResult =>
                    result[s].resourceInventory =
                        [ec2Instances |-> 4, ebsVolumes |-> 5, ebsSnapshots |-> 4]
              /\ reply[s] = 200 => result[s] # NoResult
        /\ \A op \in DOMAIN RealRequestOf \cap OpsOf(s) :
              ("assumeRole" \in OpsOf(s)) <=> (RealRequestOf[op] \in OpsOf(s))

C20_Witness ==
    \E s \in Invocations :
        /\ mockAws
        /\ req[s].user \notin activeSubs
        /\ DOMAIN RealRequestOf \subseteq OpsOf(s)
        /\ result[s] # NoResult
        /\ reply[s] = 200

\* The invocation's upsert has been applied.
Stored(s) == pc[s] = "AwaitVerify" \/ (pc[s] = "Responded" /\ reply[s] = 200)

\* C21: no two invocations hold the same scanId, and no row of the scans
\* table has been written by more than one invocation.
C21_ScanIdUnique ==
    /\ \A s, t \in Invocations :
          (s # t /\ scanId[s] # 0 /\ scanId[t] # 0) => scanId[s] # scanId[t]
    /\ \A k \in DOMAIN db :
          Cardinality({ s \in Invocations : Stored(s) /\ scanId[s] = k }) <= 1

\* runScan has returned its ScanResult, or has thrown.
RunScanDone(s) ==
    \/ result[s] # NoResult /\ pc[s] \in {"AwaitUpsert", "AwaitVerify", "Responded"}
    \/ error[s] # NoError /\ pc[s] \in {"Responded", "Threw"}

\* C22: when every awaited call eventually answers, a runScan that started
\* eventually returns a ScanResult or throws; and an invocation leaves the
\* stages of runScan in no other way.
C22_EveryScanTerminates ==
    /\ \A s \in {1} : (scanId[s] # 0) ~> RunScanDone(s)
    /\ [](\A s \in Invocations :
            (scanId[s] # 0 /\ pc[s] \in {"Responded", "Threw"}) => RunScanDone(s))

C22_Witness ==
    \E s \in Invocations :
        /\ scanId[s] # 0
        /\ RunScanDone(s)
        /\ result[s] # NoResult
        /\ "net:ec2.DescribeSnapshots" \in OpsOf(s)

\* C23: no operation on a constructed engine changes its rules, and an
\* evaluation returns issues only of rules that are enabled on the engine.
C23_OnlyEnabledRulesAndFixed ==
    [][ /\ engineRules' = engineRules
        /\ Len(evaluations') = Len(evaluations) + 1 =>
              \A i \in DOMAIN evaluations'[Len(evaluations')] :
                  evaluations'[Len(evaluations')][i].ruleId \in engineRules ]_vars

\* The resource carries a value for the field of the condition.
FieldPresent(resource, field) ==
    IF field[1] = "tags" /\ Len(field) = 2
    THEN resource.hasTags /\ field[2] \in DOMAIN resource.tags
    ELSE field[1] \in DOMAIN resource.props

MatchedPairs == { matched[i] : i \in DOMAIN matched }

\* C24: every returned pair is of a loaded rule whose resourceType is the
\* resource's type or the wildcard; a condition on a field the resource has
\* no value for is false for equals, notEquals, greaterThan, lessThan and
\* contains, and an exists condition is true exactly when the field is
\* present; and the pairs returned are exactly, once each, those of an
\* applied rule whose condition is true.
C24_GenericConditionEvaluation ==
    evaluated # << >> =>
        /\ \A r \in DOMAIN loadedRules, k \in DOMAIN evaluated :
              LET rule == loadedRules[r]
                  resource == evaluated[k]
                  applies == rule.resourceType = resource.type \/ rule.resourceType = "*"
                  present == FieldPresent(resource, rule.condition.field)
              IN  /\ << r, k >> \in MatchedPairs => applies /\ rule.enabled
                  /\ (~present /\ rule.condition.operator \in
                          {"equals", "notEquals", "greaterThan", "lessThan", "contains"})
                        => /\ ~checkCondition(rule.condition, resource)
                           /\ << r, k >> \notin MatchedPairs
                  /\ rule.condition.operator = "exists" =>
                        /\ checkCondition(rule.condition, resource) <=> present
                        /\ applies => (<< r, k >> \in MatchedPairs <=> present)
                  /\ << r, k >> \in MatchedPairs <=>
                        (applies /\ checkCondition(rule.condition, resource))
        /\ Cardinality(MatchedPairs) = Len(matched)

C24_Witness ==
    /\ Len(evaluated) = 2
    /\ Len(matched) = 1
    /\ \E r \in DOMAIN loadedRules :
          /\ loadedRules[r].condition.operator = "notEquals"
          /\ loadedRules[r].condition.field = <<"tags", "env">>
          /\ loadedRules[r].resourceType = "*"
    /\ \E k \in DOMAIN evaluated : ~evaluated[k].hasTags

\* The per-GB rate of a volume type, in mills.
RateOf(volumeType) ==
    CASE volumeType \in {"gp2", "GP2"} -> 100
      [] volumeType \in {"io1", "io2"} -> 125
      [] volumeType = "st1" -> 45
      [] volumeType = "sc1" -> 25
      [] OTHER -> 80

\* The estimates of storage issues whose resource is in the data map.
StorageEstimates ==
    { i \in DOMAIN Estimates :
        /\ Estimates[i].ruleId \in {"unattached_ebs", "old_snapshot"}
        /\ Estimates[i].resourceId \in DOMAIN resourceDataMap }

\* C25 as stated: a volume of s GB (0 included) and type t costs s x rate(t)
\* rounded to the cent, with the gp3 rate for every type other than gp2, the
\* io family, st1 and sc1; a snapshot of s GB costs s x 0.05; the percentage
\* is 0 when the cost is 0.
C25_StoragePricing ==
    \A i \in StorageEstimates :
        LET data == resourceDataMap[Estimates[i].resourceId]
        IN  /\ Estimates[i].ruleId = "unattached_ebs" =>
                  Estimates[i].currentMonthlyCost =
                      Round2(data.volumeSize * RateOf(data.volumeType))
            /\ Estimates[i].ruleId = "old_snapshot" =>
                  Estimates[i].currentMonthlyCost = 5 * data.snapshotSize
            /\ Estimates[i].currentMonthlyCost = 0 => Estimates[i].savingsPercentage = 0

\* The size priced: 20 GB stands in for a size of 0.
PricedSize(sizeGB) == IF sizeGB = 0 THEN 20 ELSE sizeGB

\* C25, amended: the size priced is s for s >= 1 and 20 GB for s = 0; the
\* rate is that of the first of gp2, io1/io2, st1, sc1 the lower-cased type
\* name contains, else the gp3 rate; a priced issue never costs 0 and its
\* percentage is 100.
C25_StoragePricingFromOneGB ==
    \A i \in StorageEstimates :
        LET data == resourceDataMap[Estimates[i].resourceId]
        IN  /\ (Estimates[i].ruleId = "unattached_ebs" /\ data.volumeType # "io2-gp2") =>
                  Estimates[i].currentMonthlyCost =
                      Round2(PricedSize(data.volumeSize) * RateOf(data.volumeType))
            /\ (Estimates[i].ruleId = "unattached_ebs" /\ data.volumeType = "io2-gp2") =>
                  Estimates[i].currentMonthlyCost =
                      Round2(PricedSize(data.volumeSize) * RateOf("gp2"))
            /\ Estimates[i].ruleId = "old_snapshot" =>
                  Estimates[i].currentMonthlyCost = 5 * PricedSize(data.snapshotSize)
            /\ Estimates[i].currentMonthlyCost > 0
            /\ Estimates[i].savingsPercentage = 10000

C25_Witness ==
    /\ \E i \in StorageEstimates :
          /\ resourceDataMap[Estimates[i].resourceId].volumeType = "gp2"
          /\ resourceDataMap[Estimates[i].resourceId].volumeSize = 200
          /\ Estimates[i].currentMonthlyCost = 2000
    /\ \E i \in StorageEstimates :
          /\ resourceDataMap[Estimates[i].resourceId].snapshotSize = 1000
          /\ Estimates[i].currentMonthlyCost = 5000

\* The issues of the list that carry a rule id.
IssuesOfRule(ruleId) == { i \in DOMAIN issueList : issueList[i].ruleId = ruleId }

\* C26: the summary has one estimate per issue, in issue order; the monthly
\* total is the sum of the estimates' savings; ruleBreakdown has an entry for
\* exactly the rule ids that occur, each with the number of its issues, the
\* sum of their savings and twelve times that sum; the counts add up to the
\* number of issues and the per-rule sums to the monthly total.
C26_SummaryAggregation ==
    savingsSummary # NoSummary =>
        LET estimates == savingsSummary.resourceBreakdown
            rules == savingsSummary.ruleBreakdown
            saved == [i \in DOMAIN estimates |-> estimates[i].potentialMonthlySavings]
        IN  /\ Len(estimates) = Len(issueList)
            /\ \A i \in DOMAIN issueList :
                  /\ estimates[i].ruleId = issueList[i].ruleId
                  /\ estimates[i].resourceId = issueList[i].resourceId
            /\ savingsSummary.totalMonthlySavings = SumOf(saved, DOMAIN estimates)
            /\ DOMAIN rules = { issueList[i].ruleId : i \in DOMAIN issueList }
            /\ \A r \in DOMAIN rules :
                  /\ rules[r].count = Cardinality(IssuesOfRule(r))
                  /\ rules[r].monthlySavings = SumOf(saved, IssuesOfRule(r))
                  /\ rules[r].annualSavings = rules[r].monthlySavings * 12
            /\ SumOf([r \in DOMAIN rules |-> rules[r].count], DOMAIN rules) = Len(issueList)
            /\ SumOf([r \in DOMAIN rules |-> rules[r].monthlySavings], DOMAIN rules) =
                   savingsSummary.totalMonthlySavings

C26_Witness ==
    /\ savingsSummary # NoSummary
    /\ Len(issueList) = MaxIssues
    /\ \E r \in DOMAIN savingsSummary.ruleBreakdown :
          /\ savingsSummary.ruleBreakdown[r].count = MaxIssues
          /\ savingsSummary.ruleBreakdown[r].monthlySavings >
                 savingsSummary.resourceBreakdown[MaxIssues].potentialMonthlySavings

\* The answers that carried the contents of a scan to a caller other than
\* its owner.
Leaks ==
    { i \in DOMAIN reads :
        \E k \in reads[i].contents : db[k].customerId # reads[i].caller }

\* C27: the contents of a stored scan are sent only in answers to requests
\* authenticated as the scan's owner.
C27_ScanOwnership == Leaks = {}

\* C27 on the one route that checks the owner.
C27_OwnershipOnGetScan == \A i \in Leaks : reads[i].route # "scan"

C27_Witness ==
    \E i \in DOMAIN reads :
        /\ reads[i].route = "scan"
        /\ reads[i].status = 403
        /\ \E j \in DOMAIN reads : reads[j].route = "scan" /\ reads[j].contents # {}

\* The invocations whose scan ran and was stored for a customer.
StoredFor(customerId) == { s \in Invocations : Stored(s) /\ req[s].user = customerId }

\* C28: for a customer without an active subscription, at most one request
\* gets its scan executed and stored, whatever the interleaving.
C28_OneFreeScan ==
    \A u \in Users : u \notin activeSubs => Cardinality(StoredFor(u)) <= 1

\* The last event handled revokes the subscription.
Revoked ==
    /\ webhooks # << >>
    /\ \/ webhooks[Len(webhooks)].type = "customer.subscription.deleted"
       \/ /\ webhooks[Len(webhooks)].type = "customer.subscription.updated"
          /\ webhooks[Len(webhooks)].status # "active"

\* C29: once the last event handled is a deletion, or an update to a status
\* other than active, the customer has no active subscription; and the store
\* never holds two records of the same Stripe subscription.
C29_SubscriptionRevocation ==
    /\ Revoked => getActiveSubscription(Subscriber) = undefined
    /\ Cardinality({ i \in DOMAIN subscriptions :
                        subscriptions[i].stripeSubscriptionId = StripeSubscription }) <= 1

\* The request was rejected, or its runScan threw.
ScanFailed(s) ==
    /\ pc[s] = "Responded"
    /\ error[s] # NoError \/ reply[s] \in {400, 403}

\* The customers who would be refused a free scan.
FreeScanUsedBy == { db[k].customerId : k \in DOMAIN db }

\* C30: a step changes the scans table only by storing the ScanResult that
\* runScan returned to the invocation taking the step, and no step changes
\* who has a subscription; so once a request is rejected or its runScan has
\* thrown, the table holds what it held when the request arrived.
C30_FailedScanWritesNothing ==
    /\ [][/\ activeSubs' = activeSubs
          /\ db' # db =>
                \E s \in Invocations :
                    /\ pc[s] = "AwaitUpsert" /\ pc'[s] = "AwaitVerify"
                    /\ result[s] # NoResult
                    /\ error[s] = NoError
                    /\ DOMAIN db' = DOMAIN db \cup { scanId[s] }
                    /\ db'[scanId[s]] = [customerId |-> req[s].user, result |-> result[s]]
                    /\ \A k \in DOMAIN db \ { scanId[s] } : db'[k] = db[k]]_vars
    /\ [](\A s \in Invocations :
            ScanFailed(s) =>
                /\ result[s] = NoResult
                /\ \A k \in DOMAIN db : k = 0 /\ db[k].result = NoResult)

C30_Witness ==
    \E s \in Invocations :
        /\ ScanFailed(s)
        /\ failedStage[s] = "EvaluatingRules"
        /\ db # << >>
        /\ FreeScanUsedBy = { req[s].user }

====
